---- MODULE Spec2Model ----
(***************************************************************************)
(* Identifier registries and metadata resolution of pw44-wsi-conversion.   *)
(*                                                                         *)
(*   claude-solution/uid_manager.py    UIDMappingManager (append-only CSV) *)
(*   copilot-solution/uid_registry.py  UIDRegistry (SQLite)                *)
(*   claude-solution/metadata_handler.py, csv_loaders.py                   *)
(*   copilot-solution/ccdi_loader.py                                       *)
(*                                                                         *)
(* Python strings are sequences of one-character tokens, so that strip()   *)
(* is computed and not assumed.  Python's None is the token sequence       *)
(* NoStr, which no string of the model equals.                             *)
(***************************************************************************)
EXTENDS Integers, Sequences, FiniteSets, TLC

\* ------------------------------------------------------------------ bounds
\* calls made of the registries in one sequential behaviour
MaxSteps == 4
\* concurrent callers of a registry, each making one call
NumCallers == 3
\* rows of the pathology_file table and of the sample table
MaxRows == 2
\* tokens of an anatomic site string given to the anatomy lookup
MaxSiteLen == 4
\* tokens of a diagnosis string given to the diagnosis parsers
MaxDiagnosisLen == 5
\* blanks before and after a sex value
MaxPad == 1
\* input files of one convert_batch call
MaxBatch == 2
\* calls made of one CCDIConverter
MaxCalls == 2

\* ----------------------------------------------------------------- strings
SP == " "
NoStr == <<"None">>
Raised == <<"raise">>
True == <<"True">>
False == <<"False">>

\* the keys callers pass: empty, plain, padded, another plain one
Keys == {<< >>, <<"a">>, <<SP, "a">>, <<"b">>}

\* the datetime_str arguments callers pass (None, two timestamps)
Candidates == {NoStr, <<"1">>, <<"2">>}

\* readings of datetime.now()
Clock == {<<"9">>}

RECURSIVE LStrip(_)
LStrip(s) ==
  IF s = << >> THEN s
  ELSE IF Head(s) = SP THEN LStrip(Tail(s)) ELSE s

RECURSIVE RStrip(_)
RStrip(s) ==
  IF s = << >> THEN s
  ELSE IF s[Len(s)] = SP THEN RStrip(SubSeq(s, 1, Len(s) - 1)) ELSE s

\* str.strip()
Strip(s) == RStrip(LStrip(s))

\* dict[k] = v
Put(m, k, v) == [x \in (DOMAIN m) \cup {k} |-> IF x = k THEN v ELSE m[x]]

\* the empty dict
Empty == [x \in {} |-> NoStr]

\* dict.get(k)
Get(m, k) == IF k \in DOMAIN m THEN m[k] ELSE NoStr

\* bool(s) of an Optional[str]
Truthy(s) == s # NoStr /\ s # << >>

\* ------------------------------------------------------- UIDMappingManager
UID_PREFIX == "2.25"

\* uuid.uuid4() never repeats a value: the n-th draw is the number n
generate_new_uid_const(n) == <<UID_PREFIX, ".", "1">>
generate_new_uid(n) == <<UID_PREFIX, ".", ToString(n)>>

RECURSIVE load_csv_map_rows(_, _)
load_csv_map_rows(rows, mapping) ==
  IF rows = << >> THEN mapping
  ELSE LET row == Head(rows) IN
       load_csv_map_rows(Tail(rows),
         IF Len(row) >= 2 /\ Strip(row[1]) # << >>
         THEN Put(mapping, Strip(row[1]), Strip(row[2]))
         ELSE mapping)

\* a file that does not exist and an empty file both read as no rows
load_csv_map(filepath) == load_csv_map_rows(filepath, Empty)

\* open(..., 'a') and writerow([key, value]); writable = the open succeeds
save_to_csv(filepath, key, value, writable) ==
  IF writable THEN Append(filepath, <<key, value>>) ELSE filepath

\* get_or_create_specimen_uid and get_or_create_study_uid have one body
get_or_create_uid(cache, filepath, raw_id, n, writable) ==
  LET id == Strip(raw_id) IN
  IF id \in DOMAIN cache
  THEN [cache |-> cache, file |-> filepath, ret |-> cache[id],
        minted |-> FALSE, raised |-> FALSE]
  ELSE LET uid == generate_new_uid(n) IN
       [cache |-> Put(cache, id, uid),
        file |-> save_to_csv(filepath, id, uid, writable),
        ret |-> IF writable THEN uid ELSE Raised,
        minted |-> TRUE, raised |-> ~writable]

get_or_set_study_datetime(cache, filepath, configured, raw_id, datetime_str, now, writable) ==
  IF ~configured
  THEN [cache |-> cache, file |-> filepath, ret |-> datetime_str,
        minted |-> FALSE, raised |-> FALSE]
  ELSE LET id == Strip(raw_id) IN
       IF id \in DOMAIN cache
       THEN [cache |-> cache, file |-> filepath, ret |-> cache[id],
             minted |-> FALSE, raised |-> FALSE]
       ELSE LET dt == IF ~Truthy(datetime_str) THEN now ELSE datetime_str IN
            [cache |-> Put(cache, id, dt),
             file |-> save_to_csv(filepath, id, dt, writable),
             ret |-> IF writable THEN dt ELSE Raised,
             minted |-> TRUE, raised |-> ~writable]

\* ------------------------------------------------------------- UIDRegistry
\* datetime.isoformat() and datetime.fromisoformat()
isoformat(d) == <<"iso">> \o d
fromisoformat(s) == Tail(s)

\* SELECT .. WHERE dataset = ? AND key = ?; INSERT; COMMIT, under self._lock.
\* Every caller of the repository passes the default dataset "CCDI".
registry_get_or_create_uid(table, key, n) ==
  IF key \in DOMAIN table
  THEN [table |-> table, ret |-> table[key], minted |-> FALSE]
  ELSE LET uid == generate_new_uid(n) IN
       [table |-> Put(table, key, uid), ret |-> uid, minted |-> TRUE]

get_or_create_study_datetime(table, study_id, study_datetime, now) ==
  IF study_id \in DOMAIN table
  THEN [table |-> table, ret |-> fromisoformat(table[study_id]),
        minted |-> FALSE]
  ELSE LET dt == IF study_datetime = NoStr THEN now ELSE study_datetime IN
       [table |-> Put(table, study_id, isoformat(dt)), ret |-> dt,
        minted |-> TRUE]

\* ============================================================ state
VARIABLES
  \* UIDMappingManager, one instance at a time (sequential use)
  specimen_cache, study_uid_cache, study_datetime_cache,
  specimen_map_file, study_uid_map_file, study_datetime_map_file,
  datetime_configured,
  \* UIDRegistry's database file
  studies, specimens, study_datetimes,
  \* uuids drawn so far, calls made so far
  uuid_count, steps,
  \* the call that ended last, with what each backend returned
  last,
  \* history: the first value each backend returned per namespace and key,
  \* the first timestamp candidate each backend was given per key (the
  \* manager's keys stripped), the keys asked of the manager, whether a store
  \* write has failed
  issued_csv, issued_sql, first_candidate, requested, write_failed,
  \* concurrent use: the registry instance each caller uses, the holder of
  \* each UIDRegistry instance's _lock, the connection holding SQLite's write
  \* lock, each UIDMappingManager instance's caches, and per caller its
  \* position, its arguments, the uid it generated and what it returned
  registry_of, lock, db_writer, caches, pc, call, new_uid, ret,
  \* metadata resolution: the three input tables as read from the CSV
  \* files, the SlideData and PatientData of the last resolution through
  \* WSIMetadataHandler, and the outcome of the last
  \* CCDIMetadataLoader.load_slide
  pathology_df, sample_df, participant_df, slide_data, patient_data,
  domain_metadata,
  \* diagnosis.csv as read
  diagnosis_df,
  \* the code mapper's functions: the argument of a call and what the call
  \* returned
  arg, result,
  \* CCDIConverter: its statistics, the output folders that hold files, the
  \* input files wsidicomizer cannot convert, the convert_slide calls made
  \* since the statistics were reset, and the call that ended last
  batch_stats, output_nonempty, unreadable, slide_calls, last_convert

seqVars == <<specimen_cache, study_uid_cache, study_datetime_cache,
             specimen_map_file, study_uid_map_file, study_datetime_map_file,
             datetime_configured, studies, specimens, study_datetimes,
             uuid_count, steps, last, issued_csv, issued_sql,
             first_candidate, requested, write_failed>>

concVars == <<registry_of, lock, db_writer, caches, pc, call, new_uid, ret>>

\* what the sequential actions leave alone
resVars == <<pathology_df, sample_df, participant_df, slide_data,
             patient_data, domain_metadata, diagnosis_df>>

pureVars == <<arg, result>>

convVars == <<batch_stats, output_nonempty, unreadable, slide_calls,
              last_convert>>

nonSeqVars == <<concVars, resVars, pureVars, convVars>>

\* what the resolutions leave alone
nonResVars == <<seqVars, concVars, pureVars, convVars>>

\* what the concurrent actions leave alone: they share the stores and the
\* uuid source with the sequential ones
nonConcVars == <<specimen_cache, study_uid_cache, study_datetime_cache,
                 study_datetime_map_file, datetime_configured,
                 study_datetimes, steps, last, issued_csv, issued_sql,
                 first_candidate, requested, write_failed, resVars,
                 pureVars, convVars>>

vars == <<seqVars, concVars, resVars, pureVars, convVars>>

Namespaces == {"specimen", "study", "study_datetime"}

LookupOps == {"has_specimen_uid", "has_study_uid", "get_specimen_uid",
              "get_study_uid"}

NoCall == [op |-> "none", key |-> << >>, cand |-> NoStr,
           csv_ret |-> NoStr, sql_ret |-> NoStr,
           csv_minted |-> FALSE, sql_minted |-> FALSE, csv_raised |-> FALSE]

\* first value wins
Remember(m, k, v) == IF k \in DOMAIN m \/ v = Raised THEN m ELSE Put(m, k, v)

\* UIDMappingManager.__init__ on files that do not exist yet, UIDRegistry
\* on a fresh database
InitStores ==
  /\ specimen_cache = Empty
  /\ study_uid_cache = Empty
  /\ study_datetime_cache = Empty
  /\ specimen_map_file = << >>
  /\ study_uid_map_file = << >>
  /\ study_datetime_map_file = << >>
  /\ datetime_configured \in BOOLEAN
  /\ studies = Empty
  /\ specimens = Empty
  /\ study_datetimes = Empty
  /\ uuid_count = 0
  /\ steps = 0
  /\ last = NoCall
  /\ issued_csv = [ns \in Namespaces |-> Empty]
  /\ issued_sql = [ns \in Namespaces |-> Empty]
  /\ first_candidate = [csv |-> Empty, sql |-> Empty]
  /\ requested = [ns \in Namespaces |-> {}]
  /\ write_failed = FALSE

Callers == 1..NumCallers

Instances == {1, 2}

NoArgs == [ns |-> "none", key |-> << >>]

\* no concurrent caller exists
IdleConc ==
  /\ registry_of = [c \in Callers |-> 1]
  /\ lock = [i \in Instances |-> 0]
  /\ db_writer = 0
  /\ caches = [i \in Instances |-> [ns \in {"specimen", "study"} |-> Empty]]
  /\ pc = [c \in Callers |-> "idle"]
  /\ call = [c \in Callers |-> NoArgs]
  /\ new_uid = [c \in Callers |-> NoStr]
  /\ ret = [c \in Callers |-> NoStr]

\* the outcome of a resolution that has not been asked for
NoResult == [kind |-> "none"]

\* no table is loaded and nothing has been resolved
IdleRes ==
  /\ pathology_df = << >>
  /\ sample_df = << >>
  /\ participant_df = {}
  /\ diagnosis_df = << >>
  /\ slide_data = NoResult
  /\ patient_data = NoResult
  /\ domain_metadata = NoResult

\* CCDIConverter.__init__ and reset_statistics
fresh_statistics ==
  [conversions |-> << >>, total_slides |-> 0, successful |-> 0,
   failed |-> 0, skipped |-> 0]

\* no conversion has been asked for
IdleConv ==
  /\ batch_stats = fresh_statistics
  /\ output_nonempty = {}
  /\ unreadable = {}
  /\ slide_calls = 0
  /\ last_convert = [op |-> "none"]

NotCalled == [called |-> FALSE]

\* no function of the code mapper has been called
IdlePure ==
  /\ arg = << >>
  /\ result = NotCalled

InitSeq == InitStores /\ IdleConv /\ IdleConc /\ IdleRes /\ IdlePure

\* ---- read-only lookups of UIDMappingManager
has_specimen_uid(specimen_id) ==
  IF Strip(specimen_id) \in DOMAIN specimen_cache THEN True ELSE False

has_study_uid(study_id) ==
  IF Strip(study_id) \in DOMAIN study_uid_cache THEN True ELSE False

get_specimen_uid_other_map(specimen_id) ==
  Get(study_uid_cache, Strip(specimen_id))
get_specimen_uid(specimen_id) == Get(specimen_cache, Strip(specimen_id))

get_study_uid(study_id) == Get(study_uid_cache, Strip(study_id))

LookupResult(op, k) ==
  CASE op = "has_specimen_uid" -> has_specimen_uid(k)
    [] op = "has_study_uid" -> has_study_uid(k)
    [] op = "get_specimen_uid" -> get_specimen_uid(k)
    [] op = "get_study_uid" -> get_study_uid(k)

\* whether the append of this call succeeds; a call that finds its key in
\* the cache writes nothing
Disk(cache, k) == IF Strip(k) \in DOMAIN cache THEN {TRUE} ELSE BOOLEAN

\* ---- the same call made of both backends
SeqGetOrCreateSpecimen ==
  \E k \in Keys : \E writable \in Disk(specimen_cache, k) :
    /\ steps < MaxSteps
    /\ steps' = steps + 1
    /\ LET c == get_or_create_uid(specimen_cache, specimen_map_file, k,
                                  uuid_count + 1, writable)
           s == registry_get_or_create_uid(specimens, k,
                  uuid_count + (IF c.minted THEN 2 ELSE 1))
       IN /\ uuid_count' = uuid_count + (IF c.minted THEN 1 ELSE 0)
                                      + (IF s.minted THEN 1 ELSE 0)
          /\ specimen_cache' = c.cache
          /\ specimen_map_file' = c.file
          /\ specimens' = s.table
          /\ last' = [op |-> "specimen", key |-> k, cand |-> NoStr,
                      csv_ret |-> c.ret, sql_ret |-> s.ret,
                      csv_minted |-> c.minted, sql_minted |-> s.minted,
                      csv_raised |-> c.raised]
          /\ issued_csv' = [issued_csv EXCEPT
               !["specimen"] = Remember(@, k, c.ret)]
          /\ issued_sql' = [issued_sql EXCEPT
               !["specimen"] = Remember(@, k, s.ret)]
          /\ requested' = [requested EXCEPT !["specimen"] = @ \cup {Strip(k)}]
          /\ write_failed' = (write_failed \/ c.raised)
          /\ UNCHANGED <<study_uid_cache, study_datetime_cache,
                         study_uid_map_file, study_datetime_map_file,
                         datetime_configured, studies, study_datetimes,
                         first_candidate, nonSeqVars>>

SeqGetOrCreateStudy ==
  \E k \in Keys : \E writable \in Disk(study_uid_cache, k) :
    /\ steps < MaxSteps
    /\ steps' = steps + 1
    /\ LET c == get_or_create_uid(study_uid_cache, study_uid_map_file, k,
                                  uuid_count + 1, writable)
           s == registry_get_or_create_uid(studies, k,
                  uuid_count + (IF c.minted THEN 2 ELSE 1))
       IN /\ uuid_count' = uuid_count + (IF c.minted THEN 1 ELSE 0)
                                      + (IF s.minted THEN 1 ELSE 0)
          /\ study_uid_cache' = c.cache
          /\ study_uid_map_file' = c.file
          /\ studies' = s.table
          /\ last' = [op |-> "study", key |-> k, cand |-> NoStr,
                      csv_ret |-> c.ret, sql_ret |-> s.ret,
                      csv_minted |-> c.minted, sql_minted |-> s.minted,
                      csv_raised |-> c.raised]
          /\ issued_csv' = [issued_csv EXCEPT !["study"] = Remember(@, k, c.ret)]
          /\ issued_sql' = [issued_sql EXCEPT !["study"] = Remember(@, k, s.ret)]
          /\ requested' = [requested EXCEPT !["study"] = @ \cup {Strip(k)}]
          /\ write_failed' = (write_failed \/ c.raised)
          /\ UNCHANGED <<specimen_cache, study_datetime_cache,
                         specimen_map_file, study_datetime_map_file,
                         datetime_configured, specimens, study_datetimes,
                         first_candidate, nonSeqVars>>

\* the SQLite registry takes a datetime or None where the manager takes a
\* string
AsDatetime(datetime_str) ==
  IF Truthy(datetime_str) THEN datetime_str ELSE NoStr

SeqGetOrCreateStudyDatetime ==
  \E k \in Keys, cand \in Candidates, now \in Clock :
    \E writable \in Disk(study_datetime_cache, k) :
    /\ steps < MaxSteps
    /\ steps' = steps + 1
    /\ LET c == get_or_set_study_datetime(study_datetime_cache,
                  study_datetime_map_file, datetime_configured, k, cand, now,
                  writable)
           s == get_or_create_study_datetime(study_datetimes, k,
                  AsDatetime(cand), now)
       IN /\ study_datetime_cache' = c.cache
          /\ study_datetime_map_file' = c.file
          /\ study_datetimes' = s.table
          /\ last' = [op |-> "study_datetime", key |-> k, cand |-> cand,
                      csv_ret |-> c.ret, sql_ret |-> s.ret,
                      csv_minted |-> c.minted, sql_minted |-> s.minted,
                      csv_raised |-> c.raised]
          /\ issued_csv' = [issued_csv EXCEPT
               !["study_datetime"] = Remember(@, k, c.ret)]
          /\ issued_sql' = [issued_sql EXCEPT
               !["study_datetime"] = Remember(@, k, s.ret)]
          /\ first_candidate' =
               [csv |-> Remember(first_candidate.csv, Strip(k), cand),
                sql |-> Remember(first_candidate.sql, k, AsDatetime(cand))]
          /\ requested' = [requested EXCEPT
               !["study_datetime"] = @ \cup {Strip(k)}]
          /\ write_failed' = (write_failed \/ c.raised)
          /\ UNCHANGED <<specimen_cache, study_uid_cache, specimen_map_file,
                         study_uid_map_file, datetime_configured, studies,
                         specimens, uuid_count, nonSeqVars>>

SeqLookup ==
  \E op \in LookupOps, k \in Keys :
    /\ steps < MaxSteps
    /\ steps' = steps + 1
    /\ last' = [op |-> op, key |-> k, cand |-> NoStr,
                csv_ret |-> LookupResult(op, k), sql_ret |-> NoStr,
                csv_minted |-> FALSE, sql_minted |-> FALSE,
                csv_raised |-> FALSE]
    /\ UNCHANGED <<specimen_cache, study_uid_cache, study_datetime_cache,
                   specimen_map_file, study_uid_map_file,
                   study_datetime_map_file, datetime_configured, studies,
                   specimens, study_datetimes, uuid_count, issued_csv,
                   issued_sql, first_candidate, requested, write_failed,
                   nonSeqVars>>

\* the process ends; a new one constructs UIDMappingManager (_load_mappings)
\* and UIDRegistry (_init_db: CREATE TABLE IF NOT EXISTS) on the same store
SeqRestart ==
  /\ steps < MaxSteps
  /\ steps' = steps + 1
  /\ specimen_cache' = load_csv_map(specimen_map_file)
  /\ study_uid_cache' = load_csv_map(study_uid_map_file)
  /\ study_datetime_cache' =
       IF datetime_configured THEN load_csv_map(study_datetime_map_file)
       ELSE Empty
  /\ last' = [NoCall EXCEPT !.op = "restart"]
  /\ UNCHANGED <<specimen_map_file, study_uid_map_file,
                 study_datetime_map_file, datetime_configured, studies,
                 specimens, study_datetimes, uuid_count, issued_csv,
                 issued_sql, first_candidate, requested, write_failed,
                 nonSeqVars>>

NextSeq ==
  \/ SeqGetOrCreateSpecimen
  \/ SeqGetOrCreateStudy
  \/ SeqLookup
  \/ SeqRestart

\* both backends on one sequence of get-or-create calls and restarts, with
\* the manager's read-only lookups
SpecSeq == InitSeq /\ [][NextSeq]_vars

NextDatetime ==
  \/ SeqGetOrCreateStudyDatetime
  \/ SeqRestart

\* both backends on one sequence of study-timestamp calls and restarts
SpecDatetime == InitSeq /\ [][NextDatetime]_vars

\* ------------------------------------------------- concurrent callers
\* Each caller is a thread making one get_or_create call.  Callers with the
\* same registry_of share one instance (threads of a process); callers with
\* different ones use instances opened on the same files (processes).
ConcKeys == {<<"a">>, <<"b">>}

\* the ways of sharing instances, up to renaming instances and callers
Sharings ==
  {r \in [Callers -> Instances] :
     /\ r[1] = 1
     /\ \A c \in Callers : c > 1 => r[c] >= r[c - 1]}

InitConc ==
  /\ registry_of \in Sharings
  /\ lock = [i \in Instances |-> 0]
  /\ db_writer = 0
  /\ caches = [i \in Instances |-> [ns \in {"specimen", "study"} |-> Empty]]
  /\ pc = [c \in Callers |-> "idle"]
  /\ call = [c \in Callers |-> NoArgs]
  /\ new_uid = [c \in Callers |-> NoStr]
  /\ ret = [c \in Callers |-> NoStr]

\* ---- UIDRegistry: threading.Lock per instance, one SQLite file
\* threading.Lock.acquire() proceeds only on a free lock
lock_free_unguarded(i) == TRUE
lock_free(i) == lock[i] = 0

Release(c) == [lock EXCEPT ![registry_of[c]] = 0]

Table(ns) == IF ns = "specimen" THEN specimens ELSE studies

\* "with self._lock:" of a call that arrives with (ns, key)
SqlAcquire(c) ==
  /\ pc[c] = "idle"
  /\ lock_free(registry_of[c])
  /\ \E ns \in {"specimen", "study"} : \E k \in ConcKeys :
       call' = [call EXCEPT ![c] = [ns |-> ns, key |-> k]]
  /\ lock' = [lock EXCEPT ![registry_of[c]] = c]
  /\ pc' = [pc EXCEPT ![c] = "select"]
  /\ UNCHANGED <<registry_of, db_writer, caches, new_uid, ret, studies,
                 specimens, specimen_map_file, study_uid_map_file,
                 uuid_count, nonConcVars>>

\* SELECT on a new connection reads the committed rows; "if row: return"
SqlSelect(c) ==
  /\ pc[c] = "select"
  /\ IF call[c].key \in DOMAIN Table(call[c].ns)
     THEN /\ ret' = [ret EXCEPT ![c] = Table(call[c].ns)[call[c].key]]
          /\ pc' = [pc EXCEPT ![c] = "done"]
          /\ lock' = Release(c)
     ELSE /\ pc' = [pc EXCEPT ![c] = "insert"]
          /\ UNCHANGED <<ret, lock>>
  /\ UNCHANGED <<registry_of, db_writer, caches, call, new_uid, studies,
                 specimens, specimen_map_file, study_uid_map_file,
                 uuid_count, nonConcVars>>

\* generate_uid(); INSERT.  The INSERT waits while another connection holds
\* the write lock, and raises sqlite3.IntegrityError on a committed row with
\* the same PRIMARY KEY (dataset, key); the exception leaves both "with"s.
SqlInsert(c) ==
  /\ pc[c] = "insert"
  /\ db_writer = 0
  /\ uuid_count' = uuid_count + 1
  /\ new_uid' = [new_uid EXCEPT ![c] = generate_new_uid(uuid_count + 1)]
  /\ IF call[c].key \in DOMAIN Table(call[c].ns)
     THEN /\ ret' = [ret EXCEPT ![c] = Raised]
          /\ pc' = [pc EXCEPT ![c] = "failed"]
          /\ lock' = Release(c)
          /\ UNCHANGED db_writer
     ELSE /\ db_writer' = c
          /\ pc' = [pc EXCEPT ![c] = "commit"]
          /\ UNCHANGED <<ret, lock>>
  /\ UNCHANGED <<registry_of, caches, call, studies, specimens,
                 specimen_map_file, study_uid_map_file, nonConcVars>>

\* conn.commit(); return uid
SqlCommit(c) ==
  /\ pc[c] = "commit"
  /\ IF call[c].ns = "specimen"
     THEN /\ specimens' = Put(specimens, call[c].key, new_uid[c])
          /\ UNCHANGED studies
     ELSE /\ studies' = Put(studies, call[c].key, new_uid[c])
          /\ UNCHANGED specimens
  /\ db_writer' = 0
  /\ ret' = [ret EXCEPT ![c] = new_uid[c]]
  /\ pc' = [pc EXCEPT ![c] = "done"]
  /\ lock' = Release(c)
  /\ UNCHANGED <<registry_of, caches, call, new_uid, specimen_map_file,
                 study_uid_map_file, uuid_count, nonConcVars>>

\* empty stores, and callers that have not called yet
InitConcurrent == InitStores /\ IdleConv /\ InitConc /\ IdleRes /\ IdlePure

NextSql ==
  \/ \E c \in Callers : SqlAcquire(c)
  \/ \E c \in Callers : SqlSelect(c)
  \/ \E c \in Callers : SqlInsert(c)
  \/ \E c \in Callers : SqlCommit(c)

SpecSql == InitConcurrent /\ [][NextSql]_vars

\* ---- UIDMappingManager: no lock, one cache per instance, shared CSV files
File(ns) == IF ns = "specimen" THEN specimen_map_file ELSE study_uid_map_file

\* specimen_id = specimen_id.strip(); "if specimen_id in self._specimen_cache"
CsvCheck(c) ==
  /\ pc[c] = "idle"
  /\ \E ns \in {"specimen", "study"} : \E k \in ConcKeys :
       LET cache == caches[registry_of[c]][ns] IN
       /\ call' = [call EXCEPT ![c] = [ns |-> ns, key |-> Strip(k)]]
       /\ IF Strip(k) \in DOMAIN cache
          THEN /\ ret' = [ret EXCEPT ![c] = cache[Strip(k)]]
               /\ pc' = [pc EXCEPT ![c] = "done"]
          ELSE /\ pc' = [pc EXCEPT ![c] = "generate"]
               /\ UNCHANGED ret
  /\ UNCHANGED <<registry_of, lock, db_writer, caches, new_uid, studies,
                 specimens, specimen_map_file, study_uid_map_file,
                 uuid_count, nonConcVars>>

\* uid = self.generate_new_uid(); self._specimen_cache[specimen_id] = uid
CsvStore(c) ==
  /\ pc[c] = "generate"
  /\ uuid_count' = uuid_count + 1
  /\ new_uid' = [new_uid EXCEPT ![c] = generate_new_uid(uuid_count + 1)]
  /\ caches' = [caches EXCEPT ![registry_of[c]][call[c].ns] =
                  Put(@, call[c].key, generate_new_uid(uuid_count + 1))]
  /\ pc' = [pc EXCEPT ![c] = "save"]
  /\ UNCHANGED <<registry_of, lock, db_writer, call, ret, studies, specimens,
                 specimen_map_file, study_uid_map_file, nonConcVars>>

\* self._save_to_csv(file, specimen_id, uid); return uid
CsvSave(c) ==
  /\ pc[c] = "save"
  /\ IF call[c].ns = "specimen"
     THEN /\ specimen_map_file' =
               save_to_csv(specimen_map_file, call[c].key, new_uid[c], TRUE)
          /\ UNCHANGED study_uid_map_file
     ELSE /\ study_uid_map_file' =
               save_to_csv(study_uid_map_file, call[c].key, new_uid[c], TRUE)
          /\ UNCHANGED specimen_map_file
  /\ ret' = [ret EXCEPT ![c] = new_uid[c]]
  /\ pc' = [pc EXCEPT ![c] = "done"]
  /\ UNCHANGED <<registry_of, lock, db_writer, caches, call, new_uid, studies,
                 specimens, uuid_count, nonConcVars>>

NextCsv ==
  \/ \E c \in Callers : CsvCheck(c)
  \/ \E c \in Callers : CsvStore(c)
  \/ \E c \in Callers : CsvSave(c)

SpecCsv == InitConcurrent /\ [][NextCsv]_vars

\* ------------------------------------------------- metadata resolution
Files == {"f.svs", "g.svs"}

SampleIds == {"s1", "s2"}

ParticipantIds == {"p1", "p2"}

\* sequences over S of length at most n
RECURSIVE SeqsUpTo(_, _)
SeqsUpTo(S, n) ==
  IF n = 0 THEN {<< >>}
  ELSE LET shorter == SeqsUpTo(S, n - 1) IN
       shorter \cup {Append(t, x) : t \in shorter, x \in S}

\* an empty cell of a CSV file, and Python's None
NA == ""
None == "None"

\* cells of the participant_id column of sample.csv
ParticipantCells == ParticipantIds \cup {NA}

\* pathology_file.csv, sample.csv and participant.csv; one staining method,
\* no anatomic site and no diagnosis row
InitTables ==
  /\ pathology_df \in
       SeqsUpTo([file_name : Files, sample_id : SampleIds,
                 staining_method : {"HE"}], MaxRows)
  /\ sample_df \in
       SeqsUpTo([sample_id : SampleIds, participant_id : ParticipantCells,
                 anatomic_site : {NA}], MaxRows)
  /\ participant_df \in SUBSET ParticipantIds
  /\ diagnosis_df = << >>
  /\ slide_data = NoResult
  /\ patient_data = NoResult
  /\ domain_metadata = NoResult

\* pandas unique(): first occurrences, in order
RECURSIVE Unique(_, _)
Unique(ids, seen) ==
  IF ids = << >> THEN << >>
  ELSE IF Head(ids) \in seen
       THEN Unique(Tail(ids), seen)
       ELSE <<Head(ids)>> \o Unique(Tail(ids), seen \cup {Head(ids)})

\* s contains the token t
Contains(s, t) == \E i \in 1..Len(s) : s[i] = t

\* a diagnosis_id with one of the markers _CNS_category, _CNS5_diagnosis
IsVariant(diagnosis_id) ==
  Contains(diagnosis_id, "_CNS_category")
    \/ Contains(diagnosis_id, "_CNS5_diagnosis")

\* ---- claude-solution: MCICCDILoader and WSIMetadataHandler
\* _get_value: None for an empty cell (the tables are read with
\* na_values=['']), the cell otherwise
get_value(cell) == IF cell = NA THEN None ELSE cell

get_value_seq(cell) == IF cell = << >> THEN NoStr ELSE cell

get_samples_for_file(filename) ==
  LET ofFile(r) == r.file_name = filename
      matches == SelectSeq(pathology_df, ofFile) IN
  Unique([i \in 1..Len(matches) |-> matches[i].sample_id], {})

\* the first row of pathology_file.csv for the pair, else for the file
get_imaging_data(filename, sample_id) ==
  LET ofPair(r) == r.file_name = filename /\ r.sample_id = sample_id
      ofFile(r) == r.file_name = filename
      pair == SelectSeq(pathology_df, ofPair)
      matches == IF pair = << >> THEN SelectSeq(pathology_df, ofFile)
                 ELSE pair IN
  IF matches = << >> THEN << >>
  ELSE <<[staining_method |-> get_value(matches[1].staining_method)]>>

\* the first row of sample.csv with that sample_id, or none
get_sample_data(sample_id) ==
  LET ofSample(r) == r.sample_id = sample_id
      matches == SelectSeq(sample_df, ofSample) IN
  IF matches = << >> THEN << >>
  ELSE <<[sample_id |-> sample_id,
          participant_id |-> get_value(matches[1].participant_id),
          anatomic_site |-> get_value(matches[1].anatomic_site),
          staining_method |-> None]>>

\* sample_data enriched with the imaging data of (filename, sample_id)
enrich_sample(filename, sample_data) ==
  LET imaging_data == get_imaging_data(filename, sample_data.sample_id) IN
  IF imaging_data = << >> THEN sample_data
  ELSE [sample_data EXCEPT
          !.staining_method = imaging_data[1].staining_method]

RECURSIVE load_samples(_, _)
load_samples(filename, sample_ids) ==
  IF sample_ids = << >> THEN << >>
  ELSE LET found == get_sample_data(Head(sample_ids))
           rest == load_samples(filename, Tail(sample_ids)) IN
       IF found = << >> THEN rest
       ELSE <<enrich_sample(filename, found[1])>> \o rest

\* returns a SlideData whatever the tables hold
load_metadata_for_file(filename) ==
  [kind |-> "ok", filename |-> filename,
   samples |-> load_samples(filename, get_samples_for_file(filename))]

get_participant_data(participant_id) == participant_id \in participant_df

NoDiagnosis == [found |-> FALSE]

\* the returned dict of a diagnosis row
DiagnosisOf(row) ==
  [found |-> TRUE, diagnosis_id |-> row.diagnosis_id,
   diagnosis |-> get_value_seq(row.diagnosis),
   anatomic_site |-> get_value(row.anatomic_site)]

\* rows by participant, else by sample; the first row without a variant
\* marker, replaced by the first _CNS5_diagnosis row when its diagnosis
\* starts with 999; the first row of all when every row is a variant
get_diagnosis_data(participant_id, sample_id) ==
  LET ofParticipant(r) == r.participant_id = participant_id
      ofSample(r) == r.sample_id = sample_id
      byParticipant == SelectSeq(diagnosis_df, ofParticipant)
      matches == IF byParticipant = << >> /\ sample_id \notin {None, NA}
                 THEN SelectSeq(diagnosis_df, ofSample)
                 ELSE byParticipant
      primary(r) == ~IsVariant(r.diagnosis_id)
      cns5(r) == Contains(r.diagnosis_id, "_CNS5_diagnosis")
      primary_matches == SelectSeq(matches, primary)
      cns5_matches == SelectSeq(matches, cns5) IN
  IF matches = << >> THEN NoDiagnosis
  ELSE IF primary_matches = << >> THEN DiagnosisOf(matches[1])
  ELSE IF /\ primary_matches[1].diagnosis # << >>
          /\ Head(primary_matches[1].diagnosis) = "999"
          /\ cns5_matches # << >>
       THEN DiagnosisOf(cns5_matches[1])
       ELSE DiagnosisOf(primary_matches[1])

Sentinels == {"Not Reported", "Invalid value"}

\* the samples of the SlideData after get_patient_data: a sample without
\* an anatomic site takes that of the diagnosis
backfill_anatomic_site(samples, diagnosis) ==
  IF diagnosis.found /\ diagnosis.anatomic_site # None
  THEN [i \in 1..Len(samples) |->
          IF samples[i].anatomic_site = None
               \/ samples[i].anatomic_site \in Sentinels
          THEN [samples[i] EXCEPT !.anatomic_site = diagnosis.anatomic_site]
          ELSE samples[i]]
  ELSE samples

\* raises ValueError on a SlideData without samples; the demographics are
\* those of the participant row when there is one
get_patient_data(sd) ==
  IF sd.samples = << >>
  THEN [kind |-> "error", filename |-> sd.filename,
        error |-> "No samples found for slide"]
  ELSE [kind |-> "ok", filename |-> sd.filename,
        patient_id |-> sd.samples[1].participant_id,
        demographics |-> get_participant_data(sd.samples[1].participant_id),
        diagnosis |-> get_diagnosis_data(sd.samples[1].participant_id,
                                         sd.samples[1].sample_id)]

\* ---- copilot-solution: CCDIMetadataLoader
find_pathology_rows(filename) ==
  LET ofFile(r) == r.file_name = filename IN SelectSeq(pathology_df, ofFile)

\* the first row of sample.csv with that sample_id, or none
find_sample_row(sample_id) ==
  LET ofSample(r) == r.sample_id = sample_id
      matches == SelectSeq(sample_df, ofSample) IN
  IF matches = << >> THEN << >> ELSE <<matches[1]>>

RECURSIVE find_sample_rows(_)
find_sample_rows(pathology_rows) ==
  IF pathology_rows = << >> THEN << >>
  ELSE find_sample_row(Head(pathology_rows).sample_id)
         \o find_sample_rows(Tail(pathology_rows))

\* "if not participant_id: participant_id = sample_row[...]" over the
\* sample rows: the first participant cell that is not empty, or None
RECURSIVE first_participant_id(_)
first_participant_id(sample_rows) ==
  IF sample_rows = << >> THEN None
  ELSE IF Head(sample_rows).participant_id # NA
       THEN Head(sample_rows).participant_id
       ELSE first_participant_id(Tail(sample_rows))

\* the first row of the participant without a variant marker, or none
find_diagnosis_row(participant_id) ==
  LET candidate(r) == r.participant_id = participant_id
                        /\ ~IsVariant(r.diagnosis_id)
      matches == SelectSeq(diagnosis_df, candidate) IN
  IF matches = << >> THEN << >> ELSE <<matches[1]>>

Min(a, b) == IF a < b THEN a ELSE b

\* zip(pathology_rows, sample_rows): one SpecimenInfo per pair, its
\* anatomic site that of the diagnosis row when it has one.  of_participant
\* is the participant of the sample row, which SpecimenInfo does not keep.
build_specimen_info_list(pathology_rows, sample_rows, diagnosis_row) ==
  [i \in 1..Min(Len(pathology_rows), Len(sample_rows)) |->
     [specimen_id |-> sample_rows[i].sample_id,
      of_participant |-> sample_rows[i].participant_id,
      anatomic_site |->
        IF diagnosis_row # << >> /\ diagnosis_row[1].anatomic_site # NA
        THEN diagnosis_row[1].anatomic_site
        ELSE IF sample_rows[i].anatomic_site # NA
             THEN sample_rows[i].anatomic_site
             ELSE None,
      staining_method |-> pathology_rows[i].staining_method]]

load_slide(filename) ==
  LET pathology_rows == find_pathology_rows(filename)
      sample_rows == find_sample_rows(pathology_rows)
      participant_id == first_participant_id(sample_rows)
      diagnosis_row == find_diagnosis_row(participant_id) IN
  IF pathology_rows = << >>
  THEN [kind |-> "error", filename |-> filename,
        error |-> "No pathology_file entries found"]
  ELSE IF participant_id = None
  THEN [kind |-> "error", filename |-> filename,
        error |-> "Could not find participant_id"]
  ELSE IF participant_id \notin participant_df
  THEN [kind |-> "error", filename |-> filename,
        error |-> "Participant not found"]
  ELSE [kind |-> "ok", filename |-> filename,
        patient |-> participant_id,
        specimens |-> build_specimen_info_list(pathology_rows, sample_rows,
                                               diagnosis_row),
        diagnosis |-> IF diagnosis_row = << >> THEN NoDiagnosis
                      ELSE [found |-> TRUE,
                            diagnosis_id |-> diagnosis_row[1].diagnosis_id,
                            diagnosis |-> diagnosis_row[1].diagnosis,
                            anatomic_site |->
                              diagnosis_row[1].anatomic_site]]

\* ---- resolutions
ClaudeLoadMetadataForFile ==
  /\ \E f \in Files : slide_data' = load_metadata_for_file(f)
  /\ patient_data' = NoResult
  /\ UNCHANGED <<pathology_df, sample_df, participant_df, diagnosis_df,
                 domain_metadata, nonResVars>>

\* get_patient_data also rewrites the samples of the SlideData it is given
ClaudeGetPatientData ==
  /\ slide_data.kind = "ok"
  /\ patient_data' = get_patient_data(slide_data)
  /\ slide_data' =
       IF slide_data.samples = << >> THEN slide_data
       ELSE [slide_data EXCEPT
               !.samples = backfill_anatomic_site(
                             @, get_patient_data(slide_data).diagnosis)]
  /\ UNCHANGED <<pathology_df, sample_df, participant_df, diagnosis_df,
                 domain_metadata, nonResVars>>

CopilotLoadSlide ==
  /\ \E f \in Files : domain_metadata' = load_slide(f)
  /\ UNCHANGED <<pathology_df, sample_df, participant_df, diagnosis_df,
                 slide_data, patient_data, nonResVars>>

InitResolve ==
  InitStores /\ IdleConv /\ datetime_configured /\ IdleConc /\ InitTables /\ IdlePure

NextResolve ==
  \/ ClaudeLoadMetadataForFile
  \/ ClaudeGetPatientData
  \/ CopilotLoadSlide

SpecResolve == InitResolve /\ [][NextResolve]_vars

\* ---- tables that differ in anatomic sites: one file, one participant
\* with a demographic row, samples with or without a site of their own,
\* diagnosis rows of the participant with or without a site
SampleSites == {NA, "Not Reported", "C71.7"}

DiagnosisSites == {NA, "C72.9"}

Medulloblastoma == <<"9470/3", " : ", "Medulloblastoma, NOS">>

InitAnatomyTables ==
  /\ pathology_df \in
       SeqsUpTo([file_name : {"f.svs"}, sample_id : SampleIds,
                 staining_method : {"HE"}], MaxRows)
  /\ sample_df \in
       SeqsUpTo([sample_id : SampleIds, participant_id : {"p1"},
                 anatomic_site : SampleSites], MaxRows)
  /\ participant_df = {"p1"}
  /\ diagnosis_df \in
       SeqsUpTo([diagnosis_id : {<<"d1">>}, participant_id : {"p1"},
                 sample_id : {NA}, diagnosis : {Medulloblastoma},
                 anatomic_site : DiagnosisSites], MaxRows)
  /\ slide_data = NoResult
  /\ patient_data = NoResult
  /\ domain_metadata = NoResult

InitAnatomy ==
  InitStores /\ IdleConv /\ datetime_configured /\ IdleConc /\ InitAnatomyTables
    /\ IdlePure

SpecAnatomy == InitAnatomy /\ [][NextResolve]_vars

\* ---- tables that differ in imaging attributes: one file whose rows name
\* a staining method each, samples of one participant, no diagnosis
StainingMethods == {"H&E", "IHC"}

InitImagingTables ==
  /\ pathology_df \in
       SeqsUpTo([file_name : {"f.svs"}, sample_id : SampleIds,
                 staining_method : StainingMethods], MaxRows)
  /\ sample_df \in
       SeqsUpTo([sample_id : SampleIds, participant_id : {"p1"},
                 anatomic_site : {NA}], MaxRows)
  /\ participant_df = {"p1"}
  /\ diagnosis_df = << >>
  /\ slide_data = NoResult
  /\ patient_data = NoResult
  /\ domain_metadata = NoResult

InitImaging ==
  InitStores /\ IdleConv /\ datetime_configured /\ IdleConc /\ InitImagingTables
    /\ IdlePure

SpecImaging == InitImaging /\ [][NextResolve]_vars

\* ---- tables that differ in diagnosis rows: one file with one specimen of
\* one participant; diagnosis rows with or without a variant marker, of the
\* participant or not, of the specimen or not, coded or unknown (999)
DiagnosisIds ==
  {<<"d1">>, <<"d1", "_CNS_category">>, <<"d1", "_CNS5_diagnosis">>}

Unknown999 == <<"999", " : ", "Unknown">>

InitDiagnosisTables ==
  /\ pathology_df =
       <<[file_name |-> "f.svs", sample_id |-> "s1",
          staining_method |-> "H&E"]>>
  /\ sample_df =
       <<[sample_id |-> "s1", participant_id |-> "p1",
          anatomic_site |-> NA]>>
  /\ participant_df = {"p1"}
  /\ diagnosis_df \in
       SeqsUpTo([diagnosis_id : DiagnosisIds, participant_id : {"p1", NA},
                 sample_id : {"s1", NA},
                 diagnosis : {Medulloblastoma, Unknown999},
                 anatomic_site : {NA}], MaxRows)
  /\ slide_data = NoResult
  /\ patient_data = NoResult
  /\ domain_metadata = NoResult

InitDiagnosis ==
  InitStores /\ IdleConv /\ datetime_configured /\ IdleConc /\ InitDiagnosisTables
    /\ IdlePure

SpecDiagnosis == InitDiagnosis /\ [][NextResolve]_vars

\* ------------------------------------------------------ DicomCodeMapper
\* Strings are sequences of tokens; " : " is the separator of a code and
\* its description and the only token with a colon.
StartsWith(s, prefix) ==
  Len(prefix) <= Len(s) /\ SubSeq(s, 1, Len(prefix)) = prefix

\* Python's "k in s" for strings
IsSubstring(k, s) ==
  \E i \in 0..Len(s) :
    i + Len(k) <= Len(s) /\ SubSeq(s, i + 1, i + Len(k)) = k

\* position of the first separator of s at or after i, 0 if none
RECURSIVE FindSeparator(_, _)
FindSeparator(s, i) ==
  IF i > Len(s) THEN 0
  ELSE IF s[i] = " : " THEN i
  ELSE FindSeparator(s, i + 1)

\* key.split(":")[0].strip()
CodePortion(key) ==
  LET i == FindSeparator(key, 1) IN
  Strip(IF i = 0 THEN key ELSE SubSeq(key, 1, i - 1))

\* two entries of self._anatomy_map, in the order of the dict
anatomy_map ==
  << <<"C71.0", " : ", "Cerebrum">>, <<"C71.7", " : ", "Brain stem">> >>

\* the loop over self._anatomy_map.items() from entry i on: the first entry
\* whose code portion starts the site or that the site contains; 0 for None
RECURSIVE partial_match(_, _)
partial_match(anatomic_site, i) ==
  IF i > Len(anatomy_map) THEN 0
  ELSE IF StartsWith(anatomic_site, CodePortion(anatomy_map[i])) THEN i
  ELSE IF IsSubstring(anatomy_map[i], anatomic_site) THEN i
  ELSE partial_match(anatomic_site, i + 1)

\* the index of the entry whose concept is returned, 0 for None
map_anatomy_to_snomed(anatomic_site) ==
  IF anatomic_site = << >>
       \/ anatomic_site \in {<<"Not Reported">>, <<"Invalid value">>}
  THEN 0
  ELSE IF \E i \in 1..Len(anatomy_map) : anatomy_map[i] = anatomic_site
  THEN CHOOSE i \in 1..Len(anatomy_map) : anatomy_map[i] = anatomic_site
  ELSE partial_match(anatomic_site, 1)

AnatomyTokens == {"C71.0", "C71.7", " : ", "Cerebrum", "Brain stem"}

InitAnatomyLookup ==
  /\ InitStores /\ IdleConv /\ datetime_configured /\ IdleConc /\ IdleRes
  /\ arg \in SeqsUpTo(AnatomyTokens, MaxSiteLen)
  /\ result = NotCalled

MapAnatomyToSnomed ==
  /\ ~result.called
  /\ result' = [called |-> TRUE, value |-> map_anatomy_to_snomed(arg)]
  /\ UNCHANGED <<arg, seqVars, concVars, resVars, convVars>>

SpecAnatomyLookup == InitAnatomyLookup /\ [][MapAnatomyToSnomed]_vars

\* ---- diagnosis strings
ICDO3 == <<"ICDO3">>

\* diagnosis.split(' : ', 1) of a string with a separator at i
BeforeSeparator(s, i) == SubSeq(s, 1, i - 1)

AfterSeparator(s, i) == SubSeq(s, i + 1, Len(s))

\* DicomCodeMapper.resolve_diagnosis_code of a dict with that diagnosis and
\* no diagnosis_comment, with self.icd_o_codes as loaded
resolve_diagnosis_code(diagnosis, icd_o_codes) ==
  LET i == FindSeparator(diagnosis, 1)
      code == Strip(BeforeSeparator(diagnosis, i))
      meaning == Strip(AfterSeparator(diagnosis, i)) IN
  IF diagnosis = << >> \/ diagnosis = <<"see diagnosis_comment">>
  THEN [code |-> NoStr, scheme |-> NoStr, meaning |-> NoStr]
  ELSE IF i > 0
  THEN IF code # << >> /\ Head(code) = "999"
       THEN [code |-> NoStr, scheme |-> NoStr, meaning |-> meaning]
       ELSE [code |-> code, scheme |-> ICDO3, meaning |-> meaning]
  ELSE IF diagnosis \in DOMAIN icd_o_codes
  THEN [code |-> diagnosis, scheme |-> ICDO3,
        meaning |-> icd_o_codes[diagnosis]]
  ELSE [code |-> NoStr, scheme |-> NoStr, meaning |-> diagnosis]

\* CCDIMetadataLoader._build_diagnosis_info: diagnosis_code and
\* diagnosis_description of the row's diagnosis
build_diagnosis_info(diagnosis_str) ==
  LET i == FindSeparator(diagnosis_str, 1) IN
  IF i > 0
  THEN [code |-> Strip(BeforeSeparator(diagnosis_str, i)),
        meaning |-> Strip(AfterSeparator(diagnosis_str, i))]
  ELSE [code |-> NoStr, meaning |-> diagnosis_str]

DiagnosisTokens == {"9470/3", "999", " : ", "Medulloblastoma, NOS", SP}

\* self.icd_o_codes: nothing loaded, or a file with one preferred term
IcdOCatalogs ==
  {Empty, Put(Empty, <<"9470/3">>, <<"Medulloblastoma, NOS">>)}

InitDiagnosisParse ==
  /\ InitStores /\ IdleConv /\ datetime_configured /\ IdleConc /\ IdleRes
  /\ arg \in [diagnosis : SeqsUpTo(DiagnosisTokens, MaxDiagnosisLen),
              icd_o_codes : IcdOCatalogs]
  /\ result = [claude |-> NotCalled, copilot |-> NotCalled,
               dataset |-> NotCalled]

ResolveDiagnosisCode ==
  /\ result' =
       [result EXCEPT
          !.claude = [called |-> TRUE,
                      value |-> resolve_diagnosis_code(arg.diagnosis,
                                                       arg.icd_o_codes)]]
  /\ UNCHANGED <<arg, seqVars, concVars, resVars, convVars>>

BuildDiagnosisInfo ==
  /\ result' =
       [result EXCEPT
          !.copilot = [called |-> TRUE,
                       value |-> build_diagnosis_info(arg.diagnosis)]]
  /\ UNCHANGED <<arg, seqVars, concVars, resVars, convVars>>

\* MetadataBuilder._add_patient_fields, admitting diagnosis: the description
\* when there is one, and with it a coded entry when there is a code
add_admitting_diagnosis(diagnosis) ==
  IF Truthy(diagnosis.meaning)
  THEN [description |-> diagnosis.meaning,
        code_sequence |->
          IF Truthy(diagnosis.code)
          THEN <<[CodeValue |-> diagnosis.code,
                  CodingSchemeDesignator |-> ICDO3,
                  CodeMeaning |-> diagnosis.meaning]>>
          ELSE << >>]
  ELSE [description |-> NoStr, code_sequence |-> << >>]

\* the dataset built from the DiagnosisInfo that the loader returned
AddPatientFields ==
  /\ result.copilot.called
  /\ result' =
       [result EXCEPT
          !.dataset = [called |-> TRUE,
                       value |-> add_admitting_diagnosis(
                                   result.copilot.value)]]
  /\ UNCHANGED <<arg, seqVars, concVars, resVars, convVars>>

NextDiagnosisParse ==
  \/ ResolveDiagnosisCode
  \/ BuildDiagnosisInfo
  \/ AddPatientFields

SpecDiagnosisParse == InitDiagnosisParse /\ [][NextDiagnosisParse]_vars


\* ---------------------------------------------------------------- map_sex
\* a sex value is a sequence of characters; pairs <<upper, lower>> of the
\* letters that occur in the values tried
Letters ==
  { <<"M", "m">>, <<"A", "a">>, <<"L", "l">>, <<"E", "e">>, <<"F", "f">>,
    <<"O", "o">>, <<"T", "t">>, <<"H", "h">>, <<"R", "r">>, <<"X", "x">> }

lower_char(c) ==
  IF \E p \in Letters : p[1] = c
  THEN (CHOOSE p \in Letters : p[1] = c)[2]
  ELSE c

upper_char(c) ==
  IF \E p \in Letters : p[2] = c
  THEN (CHOOSE p \in Letters : p[2] = c)[1]
  ELSE c

\* str.lower()
lower(s) == [i \in 1..Len(s) |-> lower_char(s[i])]

male == <<"m", "a", "l", "e">>
female == <<"f", "e", "m", "a", "l", "e">>
other == <<"o", "t", "h", "e", "r">>

\* DicomCodeMapper.map_sex
map_sex(sex_at_birth) ==
  IF ~Truthy(sex_at_birth) THEN NoStr
  ELSE LET sex_lower == Strip(lower(sex_at_birth))
       IN  IF sex_lower \in {male, <<"m">>} THEN <<"M">>
           ELSE IF sex_lower \in {female, <<"f">>} THEN <<"F">>
           ELSE IF sex_lower \in {other, <<"o">>} THEN <<"O">>
           ELSE NoStr

\* MetadataHandler._map_sex, the PatientSex member by its name
handler_map_sex(sex_at_birth) ==
  IF ~Truthy(sex_at_birth) THEN NoStr
  ELSE LET sex_lower == Strip(lower(sex_at_birth))
       IN  IF sex_lower \in {male, <<"m">>} THEN <<"M">>
           ELSE IF sex_lower \in {female, <<"f">>} THEN <<"F">>
           ELSE IF sex_lower \in {other, <<"o">>} THEN <<"O">>
           ELSE NoStr

\* MetadataBuilder._build_wsidicomizer_metadata: sex_map.get(sex, PatientSex.O)
builder_patient_sex(sex_at_birth) ==
  IF sex_at_birth = <<"M", "a", "l", "e">> THEN <<"M">>
  ELSE IF sex_at_birth = <<"F", "e", "m", "a", "l", "e">> THEN <<"F">>
  ELSE <<"O">>

\* the words tried, in lower case
SexWords == {male, female, other, <<"m">>, <<"f">>, <<"o">>, <<"x">>,
             <<"f", "e">>, << >>}

\* every spelling of a word in upper and lower case
CaseVariants(w) ==
  { [i \in 1..Len(w) |-> IF i \in U THEN upper_char(w[i]) ELSE w[i]] :
      U \in SUBSET (1..Len(w)) }

Pad(n) == [i \in 1..n |-> SP]

SexValues ==
  {NoStr} \cup
  { Pad(a) \o v \o Pad(b) :
      a \in 0..MaxPad, b \in 0..MaxPad,
      v \in UNION {CaseVariants(w) : w \in SexWords} }

InitSex ==
  /\ InitStores /\ IdleConv /\ datetime_configured /\ IdleConc /\ IdleRes
  /\ arg \in SexValues
  /\ result = [catalog |-> NotCalled, handler |-> NotCalled,
               builder |-> NotCalled]

MapSex ==
  /\ ~result.catalog.called
  /\ result' = [result EXCEPT
                  !.catalog = [called |-> TRUE, value |-> map_sex(arg)]]
  /\ UNCHANGED <<arg, seqVars, concVars, resVars, convVars>>

HandlerMapSex ==
  /\ ~result.handler.called
  /\ result' = [result EXCEPT
                  !.handler = [called |-> TRUE,
                               value |-> handler_map_sex(arg)]]
  /\ UNCHANGED <<arg, seqVars, concVars, resVars, convVars>>

BuilderPatientSex ==
  /\ ~result.builder.called
  /\ result' = [result EXCEPT
                  !.builder = [called |-> TRUE,
                               value |-> builder_patient_sex(arg)]]
  /\ UNCHANGED <<arg, seqVars, concVars, resVars, convVars>>

NextSex == MapSex \/ HandlerMapSex \/ BuilderPatientSex

SpecSex == InitSex /\ [][NextSex]_vars


\* ------------------------------------------------ specimen short description
\* dict.get(key) on a table of <<key, value>> pairs
TableGet(table, key) ==
  IF \E p \in table : p[1] = key
  THEN (CHOOSE p \in table : p[1] = key)[2]
  ELSE None

fixation_abbreviations ==
  { <<"FFPE", "FF">>,
    <<"Formalin fixed paraffin embedded (FFPE)", "FF">>,
    <<"Formalin-Fixed Paraffin-Embedded", "FF">>,
    <<"Formalin", "FF">>,
    <<"10% Neutral Buffered Formalin", "FF">>,
    <<"PAXgene", "PG">>,
    <<"OCT", "OCT">>,
    <<"Optimal Cutting Temperature", "OCT">>,
    <<"Frozen", "FR">> }

embedding_abbreviations ==
  { <<"FFPE", "PE">>,
    <<"Formalin fixed paraffin embedded (FFPE)", "PE">>,
    <<"Formalin-Fixed Paraffin-Embedded", "PE">>,
    <<"Paraffin", "PE">>,
    <<"Paraffin wax", "PE">> }

staining_abbreviations ==
  { <<"H&E", "HE">>,
    <<"Hematoxylin and Eosin Staining Method", "HE">>,
    <<"HE", "HE">>,
    <<"IHC", "IHC">>,
    <<"Immunohistochemistry", "IHC">>,
    <<"PAS", "PAS">>,
    <<"Masson trichrome", "MT">>,
    <<"Silver stain", "SS">>,
    <<"Giemsa", "GI">> }

tissue_type_abbreviations ==
  { <<"Normal", "N">>, <<"Tumor", "T">>, <<"Neoplastic", "T">> }

get_fixation_abbreviation(fixation_method) ==
  TableGet(fixation_abbreviations, fixation_method)

get_embedding_abbreviation(embedding_method) ==
  TableGet(embedding_abbreviations, embedding_method)

get_staining_abbreviation(staining_method) ==
  TableGet(staining_abbreviations, staining_method)

get_tissue_type_abbreviation(tumor_status) ==
  IF tumor_status \in {None, NA} THEN None
  ELSE TableGet(tissue_type_abbreviations, tumor_status)

\* " ".join(parts)
RECURSIVE Join(_)
Join(parts) ==
  IF parts = << >> THEN ""
  ELSE IF Len(parts) = 1 THEN parts[1]
  ELSE parts[1] \o " " \o Join(Tail(parts))

\* a value that Python takes as true: neither None nor the empty string
Present(s) == s \notin {None, NA}

\* the list of those of the given values that are present, in their order
Parts(values) == SelectSeq(values, Present)

\* s[:n]
Slice(s, n) == IF Len(s) <= n THEN s ELSE SubSeq(s, 1, n)

\* SpecimenBuilder.build_short_description
build_short_description(fixation_method, staining_method, tumor_status) ==
  LET parts == Parts(<<get_fixation_abbreviation(fixation_method),
                       get_embedding_abbreviation(fixation_method),
                       get_staining_abbreviation(staining_method),
                       get_tissue_type_abbreviation(tumor_status)>>)
      description == Join(parts)
  IN  IF description # "" THEN Slice(description, 64) ELSE ""

\* MetadataHandler._build_slide_samples: SlideSample.short_description
slide_sample_short_description(sample_data) ==
  LET short_desc == build_short_description(sample_data.fixation_method,
                                            sample_data.staining_method,
                                            sample_data.tumor_status)
  IN  IF short_desc # "" THEN Slice(short_desc, 64) ELSE None

\* DomainMetadata.get_specimen_short_description
get_specimen_short_description(specimen) ==
  LET parts == Parts(<<specimen.fixation_method,
                       specimen.staining_method,
                       IF Present(specimen.tumor_status)
                       THEN IF specimen.tumor_status = "Tumor"
                            THEN "T" ELSE "N"
                       ELSE None>>)
  IN  IF parts # << >> THEN Join(parts) ELSE specimen.sample_id

FixationMethods ==
  {None, NA, "FFPE", "Formalin fixed paraffin embedded (FFPE)", "OCT",
   "Frozen", "Paraffin", "Fresh"}

StainingNames ==
  {None, NA, "H&E", "Hematoxylin and Eosin Staining Method", "IHC",
   "Trichrome"}

TumorStatuses == {None, NA, "Tumor", "Normal", "Neoplastic", "Not Reported"}

InitDescription ==
  /\ InitStores /\ IdleConv /\ datetime_configured /\ IdleConc /\ IdleRes
  /\ arg \in [sample_id : SampleIds,
              fixation_method : FixationMethods,
              staining_method : StainingNames,
              tumor_status : TumorStatuses]
  /\ result = [builder |-> NotCalled, handler |-> NotCalled,
               domain |-> NotCalled]

BuildShortDescription ==
  /\ ~result.builder.called
  /\ result' =
       [result EXCEPT
          !.builder = [called |-> TRUE,
                       value |-> build_short_description(
                                   arg.fixation_method, arg.staining_method,
                                   arg.tumor_status)]]
  /\ UNCHANGED <<arg, seqVars, concVars, resVars, convVars>>

BuildSlideSample ==
  /\ ~result.handler.called
  /\ result' =
       [result EXCEPT
          !.handler = [called |-> TRUE,
                       value |-> slide_sample_short_description(arg)]]
  /\ UNCHANGED <<arg, seqVars, concVars, resVars, convVars>>

GetSpecimenShortDescription ==
  /\ ~result.domain.called
  /\ result' =
       [result EXCEPT
          !.domain = [called |-> TRUE,
                      value |-> get_specimen_short_description(arg)]]
  /\ UNCHANGED <<arg, seqVars, concVars, resVars, convVars>>

NextDescription ==
  \/ BuildShortDescription
  \/ BuildSlideSample
  \/ GetSpecimenShortDescription

SpecDescription == InitDescription /\ [][NextDescription]_vars


\* ------------------------------------------------- assembling the metadata
\* the participant identifiers of the graphs assembled: empty, plain, padded
GraphPatients == {<< >>, <<"a">>, <<SP, "a">>}

\* the specimen identifiers of the graphs assembled
GraphSpecimens == {<< <<"a">> >>}

NoBuild == [op |-> "none", key |-> << >>, cand |-> NoStr, raised |-> FALSE,
            study_uid |-> NoStr, study_datetime |-> NoStr]

\* _build_slide_samples: get_or_create_specimen_uid for each sample in
\* turn; a failed append ends the loop
RECURSIVE create_specimen_uids(_, _, _, _, _)
create_specimen_uids(cache, filepath, ids, n, writable) ==
  IF ids = << >>
  THEN [cache |-> cache, file |-> filepath, n |-> n, raised |-> FALSE]
  ELSE LET c == get_or_create_uid(cache, filepath, Head(ids), n + 1,
                                  writable)
           m == IF c.minted THEN n + 1 ELSE n
       IN  IF c.raised
           THEN [cache |-> c.cache, file |-> c.file, n |-> m,
                 raised |-> TRUE]
           ELSE create_specimen_uids(c.cache, c.file, Tail(ids), m, writable)

\* WSIMetadataHandler.build_wsidicomizer_metadata: the study uid of the
\* patient id, the specimen uid of each sample, a new frame of reference uid
ClaudeBuildWsidicomizerMetadata ==
  \E patient_id \in GraphPatients, sample_ids \in GraphSpecimens :
   \E study_writable \in Disk(study_uid_cache, patient_id) :
    \E specimen_writable \in Disk(specimen_cache, Head(sample_ids)) :
    /\ steps < MaxSteps
    /\ steps' = steps + 1
    /\ LET c == get_or_create_uid(study_uid_cache, study_uid_map_file,
                                  patient_id, uuid_count + 1, study_writable)
           n == IF c.minted THEN uuid_count + 1 ELSE uuid_count
           s == IF c.raised
                THEN [cache |-> specimen_cache, file |-> specimen_map_file,
                      n |-> n, raised |-> TRUE]
                ELSE create_specimen_uids(specimen_cache, specimen_map_file,
                                          sample_ids, n, specimen_writable)
       IN /\ study_uid_cache' = c.cache
          /\ study_uid_map_file' = c.file
          /\ specimen_cache' = s.cache
          /\ specimen_map_file' = s.file
          /\ uuid_count' = IF s.raised THEN s.n ELSE s.n + 1
          /\ last' = [op |-> "claude", key |-> patient_id, cand |-> NoStr,
                      raised |-> s.raised,
                      study_uid |-> IF s.raised THEN NoStr ELSE c.ret,
                      study_datetime |-> NoStr]
          /\ issued_csv' =
               [issued_csv EXCEPT
                  !["study"] = IF s.raised THEN @
                               ELSE Remember(@, patient_id, c.ret)]
          /\ write_failed' = (write_failed \/ s.raised)
    /\ UNCHANGED <<study_datetime_cache, study_datetime_map_file,
                   datetime_configured, studies, specimens, study_datetimes,
                   issued_sql, first_candidate, requested, nonSeqVars>>

\* the specimen uids of MetadataBuilder.build
RECURSIVE registry_specimen_uids(_, _, _)
registry_specimen_uids(table, ids, n) ==
  IF ids = << >> THEN [table |-> table, n |-> n]
  ELSE LET s == registry_get_or_create_uid(table, Head(ids), n + 1)
       IN  registry_specimen_uids(s.table, Tail(ids),
                                  IF s.minted THEN n + 1 ELSE n)

\* MetadataBuilder.build: the study uid and the study datetime of the
\* patient id, the specimen uid of each specimen
CopilotBuild ==
  \E patient_id \in GraphPatients, sample_ids \in GraphSpecimens :
   \E study_datetime \in Candidates, now \in Clock :
    /\ steps < MaxSteps
    /\ steps' = steps + 1
    /\ LET u == registry_get_or_create_uid(studies, patient_id,
                                           uuid_count + 1)
           n == IF u.minted THEN uuid_count + 1 ELSE uuid_count
           d == get_or_create_study_datetime(study_datetimes, patient_id,
                  IF study_datetime = NoStr THEN now ELSE study_datetime,
                  now)
           s == registry_specimen_uids(specimens, sample_ids, n)
       IN /\ studies' = u.table
          /\ study_datetimes' = d.table
          /\ specimens' = s.table
          /\ uuid_count' = s.n
          /\ last' = [op |-> "copilot", key |-> patient_id,
                      cand |-> study_datetime, raised |-> FALSE,
                      study_uid |-> u.ret, study_datetime |-> d.ret]
          /\ issued_sql' =
               [issued_sql EXCEPT
                  !["study"] = Remember(@, patient_id, u.ret),
                  !["study_datetime"] = Remember(@, patient_id, d.ret)]
          /\ first_candidate' =
               [first_candidate EXCEPT
                  !.sql = Remember(@, patient_id, study_datetime)]
    /\ UNCHANGED <<specimen_cache, study_uid_cache, study_datetime_cache,
                   specimen_map_file, study_uid_map_file,
                   study_datetime_map_file, datetime_configured, issued_csv,
                   requested, write_failed, nonSeqVars>>

\* the process ends and a new one opens the same stores
BuildRestart ==
  /\ steps < MaxSteps
  /\ steps' = steps + 1
  /\ specimen_cache' = load_csv_map(specimen_map_file)
  /\ study_uid_cache' = load_csv_map(study_uid_map_file)
  /\ study_datetime_cache' = load_csv_map(study_datetime_map_file)
  /\ last' = [NoBuild EXCEPT !.op = "restart"]
  /\ UNCHANGED <<specimen_map_file, study_uid_map_file,
                 study_datetime_map_file, datetime_configured, studies,
                 specimens, study_datetimes, uuid_count, issued_csv,
                 issued_sql, first_candidate, requested, write_failed,
                 nonSeqVars>>

InitAssemble ==
  /\ InitStores /\ IdleConv /\ datetime_configured
  /\ IdleConc /\ IdleRes /\ IdlePure

NextAssemble ==
  \/ ClaudeBuildWsidicomizerMetadata
  \/ CopilotBuild
  \/ BuildRestart

SpecAssemble == InitAssemble /\ [][NextAssemble]_vars


\* ------------------------------------------------------------ CCDIConverter
\* input files: a directory and a name; two of them have the same name
InputFiles ==
  { [dir |-> "a", name |-> "f.svs"], [dir |-> "b", name |-> "f.svs"],
    [dir |-> "a", name |-> "g.svs"] }

\* Path.stem
stem(name) == IF name = "f.svs" THEN "f" ELSE "g"

\* extract_scan_datetime: what the TIFF header of the file holds
extract_scan_datetime(input_file) ==
  IF input_file.dir = "a" THEN <<"1">> ELSE NoStr

\* _check_output_directory: a folder that holds files is cleared when
\* auto_clear is set or the user answers yes, and the call aborts otherwise
check_output_directory(nonempty, output_folder, auto_clear, response) ==
  IF output_folder \in nonempty
  THEN IF auto_clear \/ response
       THEN [proceed |-> TRUE, nonempty |-> nonempty \ {output_folder}]
       ELSE [proceed |-> FALSE, nonempty |-> nonempty]
  ELSE [proceed |-> TRUE, nonempty |-> nonempty]

\* the specimen identifiers of a resolved slide
SpecimenIds(specimen_list) ==
  [i \in 1..Len(specimen_list) |-> specimen_list[i].specimen_id]

\* the converter's state: its statistics, its registry, the output folders
ConverterState ==
  [stats |-> batch_stats, studies |-> studies, specimens |-> specimens,
   study_datetimes |-> study_datetimes, uuid_count |-> uuid_count,
   nonempty |-> output_nonempty]

\* the statistics after a call that was skipped, that failed, that succeeded
record_skipped(stats) == [stats EXCEPT !.skipped = @ + 1]

record_failed_untotalled(stats) == [stats EXCEPT !.failed = @ + 1]
record_failed(stats) ==
  [stats EXCEPT !.failed = @ + 1, !.total_slides = @ + 1]

record_successful(stats, filename) ==
  [stats EXCEPT !.conversions = Append(@, filename),
                !.successful = @ + 1,
                !.total_slides = @ + 1]

\* CCDIConverter.convert_slide on converter state st
convert_slide(st, input_file, output_folder, auto_clear, response, now) ==
  LET dir == check_output_directory(st.nonempty, output_folder, auto_clear,
                                    response)
      domain == load_slide(input_file.name)
  IN
  IF ~dir.proceed
  THEN [st |-> [st EXCEPT !.stats = record_skipped(@)], ret |-> None]
  ELSE IF domain.kind = "error"
  THEN [st |-> [st EXCEPT !.nonempty = dir.nonempty,
                          !.stats = record_failed(@)],
        ret |-> None]
  ELSE
    LET scanned == extract_scan_datetime(input_file)
        u == registry_get_or_create_uid(st.studies, domain.patient,
                                        st.uuid_count + 1)
        n == IF u.minted THEN st.uuid_count + 1 ELSE st.uuid_count
        d == get_or_create_study_datetime(st.study_datetimes,
               domain.patient,
               IF scanned = NoStr THEN now ELSE scanned, now)
        s == registry_specimen_uids(st.specimens,
                                    SpecimenIds(domain.specimens), n)
        built == [st EXCEPT !.nonempty = dir.nonempty,
                            !.studies = u.table,
                            !.study_datetimes = d.table,
                            !.specimens = s.table,
                            !.uuid_count = s.n]
    IN
    IF input_file \in unreadable
    THEN [st |-> [built EXCEPT !.stats = record_failed(@)],
          ret |-> None]
    ELSE [st |-> [built EXCEPT
                    !.nonempty = @ \cup {output_folder},
                    !.stats = record_successful(@, input_file.name)],
          ret |-> <<[folder |-> output_folder, study_uid |-> u.ret,
                     of |-> input_file]>>]

\* the loop of CCDIConverter.convert_batch with create_subfolders, over the
\* input files left; log is the files given to convert_slide so far
RECURSIVE convert_batch(_, _, _, _, _)
convert_batch(st, results, log, input_files, now) ==
  IF input_files = << >>
  THEN [st |-> st, results |-> results, log |-> log]
  ELSE LET input_file == Head(input_files)
           r == convert_slide(st, input_file, stem(input_file.name), TRUE,
                              FALSE, now)
       IN  convert_batch(r.st,
                         Put(results, input_file.name,
                             IF r.ret = None THEN << >> ELSE r.ret),
                         Append(log, input_file), Tail(input_files), now)

\* the converter's state after a call
Becomes(st) ==
  /\ batch_stats' = st.stats
  /\ studies' = st.studies
  /\ specimens' = st.specimens
  /\ study_datetimes' = st.study_datetimes
  /\ uuid_count' = st.uuid_count
  /\ output_nonempty' = st.nonempty

\* what a call of the converter leaves alone
nonConvVars ==
  <<specimen_cache, study_uid_cache, study_datetime_cache,
    specimen_map_file, study_uid_map_file, study_datetime_map_file,
    datetime_configured, last, issued_csv, issued_sql, first_candidate,
    requested, write_failed, concVars, resVars, pureVars, unreadable>>

ConvertSlide ==
  \E input_file \in InputFiles, auto_clear \in BOOLEAN :
   \E response \in BOOLEAN, now \in Clock :
    /\ steps < MaxCalls
    /\ steps' = steps + 1
    /\ LET r == convert_slide(ConverterState, input_file,
                              stem(input_file.name), auto_clear, response,
                              now)
       IN /\ Becomes(r.st)
          /\ last_convert' = [op |-> "convert_slide",
                              input_file |-> input_file, ret |-> r.ret,
                              before |-> batch_stats]
    /\ slide_calls' = slide_calls + 1
    /\ UNCHANGED nonConvVars

ConvertBatch ==
  \E input_files \in SeqsUpTo(InputFiles, MaxBatch), now \in Clock :
    /\ steps < MaxCalls
    /\ steps' = steps + 1
    /\ LET r == convert_batch(ConverterState, Empty, << >>, input_files,
                              now)
       IN /\ Becomes(r.st)
          /\ last_convert' = [op |-> "convert_batch",
                              input_files |-> input_files,
                              results |-> r.results, log |-> r.log,
                              before |-> batch_stats]
    /\ slide_calls' = slide_calls + Len(input_files)
    /\ UNCHANGED nonConvVars

ResetStatistics ==
  /\ steps < MaxCalls
  /\ steps' = steps + 1
  /\ batch_stats' = fresh_statistics
  /\ slide_calls' = 0
  /\ last_convert' = [op |-> "reset_statistics"]
  /\ UNCHANGED <<studies, specimens, study_datetimes, uuid_count,
                 output_nonempty, nonConvVars>>

\* the tables of a run: f.svs shows specimen s1 of participant p1, g.svs
\* shows specimen s2 of participant p2; s2 or p2 may be missing
InitBatchTables ==
  /\ pathology_df =
       << [file_name |-> "f.svs", sample_id |-> "s1",
           staining_method |-> "HE"],
          [file_name |-> "g.svs", sample_id |-> "s2",
           staining_method |-> "HE"] >>
  /\ sample_df \in
       { << [sample_id |-> "s1", participant_id |-> "p1",
             anatomic_site |-> NA] >>,
         << [sample_id |-> "s1", participant_id |-> "p1",
             anatomic_site |-> NA],
            [sample_id |-> "s2", participant_id |-> "p2",
             anatomic_site |-> NA] >> }
  /\ participant_df \in {{"p1"}, {"p1", "p2"}}
  /\ diagnosis_df = << >>
  /\ slide_data = NoResult
  /\ patient_data = NoResult
  /\ domain_metadata = NoResult

InitConvert ==
  /\ InitStores /\ datetime_configured /\ IdleConc /\ InitBatchTables
  /\ IdlePure
  /\ batch_stats = fresh_statistics
  /\ output_nonempty = {}
  /\ unreadable \in {{}, {[dir |-> "b", name |-> "f.svs"]}}
  /\ slide_calls = 0
  /\ last_convert = [op |-> "none"]

NextConvert == ConvertSlide \/ ConvertBatch \/ ResetStatistics

SpecConvert == InitConvert /\ [][NextConvert]_vars


\* ---------------------------------------------- foreign-key column names
\* a table names its foreign-key column bare (sample_id) or dotted
\* (sample.sample_id)
Styles == {"bare", "dotted"}

\* the name of the foreign-key column in a table of that style
column_name(style, parent, key) ==
  IF style = "dotted" THEN parent \o "." \o key ELSE key

\* 'sample.sample_id' if 'sample.sample_id' in df.columns else 'sample_id'
pick_column(style, parent, key) ==
  IF parent \o "." \o key = column_name(style, parent, key)
  THEN parent \o "." \o key
  ELSE key

KeyError(filename) ==
  [kind |-> "error", filename |-> filename, error |-> "KeyError"]

\* WSIMetadataHandler on tables with those column names: each lookup of
\* CCDICSVLoader picks the column the table has
claude_resolve_columns(filename, columns) ==
  LET pathology_col == pick_column(columns.pathology, "sample", "sample_id")
      sample_col == pick_column(columns.sample, "participant",
                                "participant_id")
      diagnosis_col == pick_column(columns.diagnosis, "participant",
                                   "participant_id")
      sd == load_metadata_for_file(filename)
  IN  IF \/ pathology_col # column_name(columns.pathology, "sample",
                                        "sample_id")
         \/ sample_col # column_name(columns.sample, "participant",
                                     "participant_id")
         \/ diagnosis_col # column_name(columns.diagnosis, "participant",
                                        "participant_id")
      THEN [slide |-> KeyError(filename), patient |-> KeyError(filename)]
      ELSE [slide |-> sd, patient |-> get_patient_data(sd)]

\* CCDIMetadataLoader.load_slide on tables with those column names: it
\* reads row['sample.sample_id'] of the pathology rows,
\* row['participant.participant_id'] of the first sample row found and
\* row.get('participant.participant_id') of the diagnosis rows
load_slide_columns(filename, columns) ==
  LET pathology_rows == find_pathology_rows(filename)
      sample_rows == find_sample_rows(pathology_rows)
      participant_id == first_participant_id(sample_rows)
      diagnosis_row ==
        IF column_name(columns.diagnosis, "participant", "participant_id")
             = "participant.participant_id"
        THEN find_diagnosis_row(participant_id)
        ELSE << >>
  IN
  IF pathology_rows = << >>
  THEN [kind |-> "error", filename |-> filename,
        error |-> "No pathology_file entries found"]
  ELSE IF column_name(columns.pathology, "sample", "sample_id")
            # "sample.sample_id"
  THEN KeyError(filename)
  ELSE IF sample_rows # << >>
            /\ column_name(columns.sample, "participant", "participant_id")
                 # "participant.participant_id"
  THEN KeyError(filename)
  ELSE IF participant_id = None
  THEN [kind |-> "error", filename |-> filename,
        error |-> "Could not find participant_id"]
  ELSE IF participant_id \notin participant_df
  THEN [kind |-> "error", filename |-> filename,
        error |-> "Participant not found"]
  ELSE [kind |-> "ok", filename |-> filename,
        patient |-> participant_id,
        specimens |-> build_specimen_info_list(pathology_rows, sample_rows,
                                               diagnosis_row),
        diagnosis |-> IF diagnosis_row = << >> THEN NoDiagnosis
                      ELSE [found |-> TRUE,
                            diagnosis_id |-> diagnosis_row[1].diagnosis_id,
                            diagnosis |-> diagnosis_row[1].diagnosis,
                            anatomic_site |->
                              diagnosis_row[1].anatomic_site]]

\* one file, samples of one participant, at most one diagnosis row
InitColumnTables ==
  /\ pathology_df \in
       SeqsUpTo([file_name : {"f.svs"}, sample_id : SampleIds,
                 staining_method : {"HE"}], MaxRows)
  /\ sample_df \in
       SeqsUpTo([sample_id : SampleIds, participant_id : {"p1"},
                 anatomic_site : {NA}], MaxRows)
  /\ participant_df = {"p1"}
  /\ diagnosis_df \in
       { << >>,
         << [diagnosis_id |-> <<"d1">>, participant_id |-> "p1",
             sample_id |-> NA, diagnosis |-> Medulloblastoma,
             anatomic_site |-> "C72.9"] >> }
  /\ slide_data = NoResult
  /\ patient_data = NoResult
  /\ domain_metadata = NoResult

InitColumns ==
  /\ InitStores /\ IdleConv /\ datetime_configured /\ IdleConc
  /\ InitColumnTables
  /\ arg \in [pathology : Styles, sample : Styles, diagnosis : Styles]
  /\ result = [claude |-> NotCalled, copilot |-> NotCalled]

ClaudeResolveColumns ==
  /\ ~result.claude.called
  /\ result' =
       [result EXCEPT
          !.claude = [called |-> TRUE,
                      value |-> claude_resolve_columns("f.svs", arg)]]
  /\ UNCHANGED <<arg, seqVars, concVars, resVars, convVars>>

CopilotLoadSlideColumns ==
  /\ ~result.copilot.called
  /\ result' =
       [result EXCEPT
          !.copilot = [called |-> TRUE,
                       value |-> load_slide_columns("f.svs", arg)]]
  /\ UNCHANGED <<arg, seqVars, concVars, resVars, convVars>>

NextColumns == ClaudeResolveColumns \/ CopilotLoadSlideColumns

SpecColumns == InitColumns /\ [][NextColumns]_vars


\* ---- specimen_count and study_count of UIDMappingManager
specimen_count == Cardinality(DOMAIN specimen_cache)

study_count == Cardinality(DOMAIN study_uid_cache)


\* ============================================ claims, sequential registry
CacheOf(ns) == IF ns = "specimen" THEN specimen_cache ELSE study_uid_cache

FileOf(ns) ==
  IF ns = "specimen" THEN specimen_map_file ELSE study_uid_map_file

TableOf(ns) == IF ns = "specimen" THEN specimens ELSE studies

Rows(f) == {f[i] : i \in 1..Len(f)}

UidOps == {"specimen", "study"}

\* C1: for every namespace and key, while no store write fails, every
\* get_or_create call returns the identifier the first call for that key
\* returned, in the same instance and in an instance opened later on the
\* same store, for the CSV manager and for the SQLite registry.
C1_ColdRestartIdempotent ==
  (last.op \in UidOps /\ ~write_failed) =>
    /\ last.csv_ret = issued_csv[last.op][last.key]
    /\ last.sql_ret = issued_sql[last.op][last.key]

\* C5: a call of get-or-create-study-timestamp returns the candidate the
\* first call for its key was given, whatever candidate it is given itself,
\* for the manager in each configuration and for the registry.
C5_FirstTimestampWins ==
  (last.op = "study_datetime" /\ ~write_failed) =>
    /\ Truthy(first_candidate.csv[Strip(last.key)]) =>
         last.csv_ret = first_candidate.csv[Strip(last.key)]
    /\ Truthy(first_candidate.sql[last.key]) =>
         last.sql_ret = first_candidate.sql[last.key]

\* C6: a get_or_create call of the manager whose write fails leaves the
\* in-memory map without the key, and an identifier a call returns is in
\* the backing file.
C6_ReturnedIsPersisted ==
  last.op \in UidOps =>
    /\ last.csv_raised => Strip(last.key) \notin DOMAIN CacheOf(last.op)
    /\ last.csv_ret # Raised =>
         <<Strip(last.key), last.csv_ret>> \in Rows(FileOf(last.op))

LookupNamespace(op) ==
  IF op \in {"has_specimen_uid", "get_specimen_uid"} THEN "specimen"
  ELSE "study"

LookupAbsent(op) ==
  IF op \in {"has_specimen_uid", "has_study_uid"} THEN False ELSE NoStr

UnregisteredIsAbsent ==
  (last.op \in LookupOps
     /\ Strip(last.key) \notin requested[LookupNamespace(last.op)])
    => last.csv_ret = LookupAbsent(last.op)

\* a step that is a call of one of the four lookups
LookupStep == steps' # steps /\ last'.op \in LookupOps

\* C7: a read-only lookup of the manager leaves the in-memory maps and the
\* backing files as they were, and answers absent (False for has_*) for a
\* key that no get_or_create call of its namespace was given.
C7_LookupsNeverCreate ==
  [][LookupStep =>
       /\ UNCHANGED <<specimen_cache, study_uid_cache, study_datetime_cache,
                      specimen_map_file, study_uid_map_file,
                      study_datetime_map_file>>
       /\ UnregisteredIsAbsent']_vars

\* a lookup of a specimen key never created, while the same key is mapped
\* as a study
C7_Witness ==
  /\ last.op = "get_specimen_uid"
  /\ Strip(last.key) \notin requested["specimen"]
  /\ Strip(last.key) \in DOMAIN study_uid_cache
  /\ last.csv_ret = NoStr

Injective(m) == \A k1, k2 \in DOMAIN m : k1 # k2 => m[k1] # m[k2]

\* C8: within one namespace no two keys are mapped to one identifier, in
\* the manager's maps and in the registry's tables.
C8_Injective ==
  /\ Injective(specimen_cache)
  /\ Injective(study_uid_cache)
  /\ Injective(specimens)
  /\ Injective(studies)

\* two keys mapped in one namespace of each backend, after a restart
C8_Witness ==
  /\ Cardinality(DOMAIN specimen_cache) >= 2
  /\ Cardinality(DOMAIN specimens) >= 2
  /\ last.op = "restart"

\* C9: given the same calls, the two backends agree on whether a call
\* creates a mapping or returns a stored one, and so on which keys are
\* mapped.
C9_BackendsAgree ==
  (last.op \in UidOps /\ ~write_failed) =>
    last.csv_minted = last.sql_minted

\* ---- concurrent callers
Finished(c) == pc[c] \in {"done", "failed"}

OneInstance == \A c, d \in Callers : registry_of[c] = registry_of[d]

\* C2: when the threads share one UIDRegistry instance, every finished call
\* returned the identifier of the one row stored under its key, no call
\* failed, and no two calls generated an identifier for the same key.
C2_SharedInstanceOneRow ==
  OneInstance =>
    /\ \A c \in Callers : Finished(c) =>
         /\ ret[c] # Raised
         /\ call[c].key \in DOMAIN Table(call[c].ns)
         /\ ret[c] = Table(call[c].ns)[call[c].key]
    /\ \A c, d \in Callers :
         (call[c] = call[d] /\ new_uid[c] # NoStr /\ new_uid[d] # NoStr)
           => c = d

\* all callers, threads of one instance, have called with the same key and
\* have returned
C2_Witness ==
  /\ OneInstance
  /\ \A c \in Callers : pc[c] = "done" /\ call[c] = call[1]

\* no call is in progress
Quiescent == \A c \in Callers : pc[c] \in {"idle", "done"}

\* C3: callers of UIDMappingManager that asked for the same key, as threads
\* of one instance or through instances on the same files, all got the same
\* identifier; and once no call is in progress, a fresh instance loads that
\* identifier and the file holds one row for the key.
C3_AtMostOneMinted ==
  \A c \in Callers : pc[c] = "done" =>
    /\ \A d \in Callers :
         (pc[d] = "done" /\ call[d] = call[c]) => ret[d] = ret[c]
    /\ Quiescent =>
         /\ Get(load_csv_map(File(call[c].ns)), call[c].key) = ret[c]
         /\ Cardinality({i \in 1..Len(File(call[c].ns)) :
                           File(call[c].ns)[i][1] = call[c].key}) <= 1

\* C4: two calls for the same key through different UIDRegistry instances
\* on one database both return, and return the same identifier.
C4_TwoInstancesOneIdentifier ==
  \A c, d \in Callers :
    (/\ registry_of[c] # registry_of[d]
     /\ call[c] = call[d]
     /\ Finished(c)
     /\ Finished(d))
      => /\ ret[c] # Raised
         /\ ret[d] # Raised
         /\ ret[c] = ret[d]

\* ---- metadata resolution
HasRows(filename) ==
  \E i \in 1..Len(pathology_df) : pathology_df[i].file_name = filename

\* C10: a resolution of a file without file-association rows has failed,
\* and no resolution has returned a slide with an empty specimen list.
C10_NoEmptyGraph ==
  /\ slide_data.kind = "ok" =>
       /\ HasRows(slide_data.filename)
       /\ slide_data.samples # << >>
  /\ domain_metadata.kind = "ok" =>
       /\ HasRows(domain_metadata.filename)
       /\ domain_metadata.specimens # << >>

\* C11: no resolution has returned patient data for an owning participant
\* without a row in the participant table.
C11_NoSilentDemographics ==
  /\ patient_data.kind = "ok" => patient_data.demographics
  /\ domain_metadata.kind = "ok" => domain_metadata.patient \in participant_df

\* C12: in every returned graph each specimen's participant is the graph's
\* participant.
C12_SingleParticipant ==
  /\ patient_data.kind = "ok" =>
       \A i \in 1..Len(slide_data.samples) :
         slide_data.samples[i].participant_id = patient_data.patient_id
  /\ domain_metadata.kind = "ok" =>
       \A i \in 1..Len(domain_metadata.specimens) :
         domain_metadata.specimens[i].of_participant
           = domain_metadata.patient

\* C14: the owning participant is the one the first resolved specimen
\* references.
C14_OwnerIsFirstSpecimens ==
  /\ patient_data.kind = "ok" =>
       patient_data.patient_id = slide_data.samples[1].participant_id
  /\ domain_metadata.kind = "ok" =>
       domain_metadata.patient = domain_metadata.specimens[1].of_participant

\* the sample ids associated with the file that have a row in sample.csv,
\* each once, in the order of pathology_file.csv
HasBaseRow(sample_id) ==
  \E i \in 1..Len(sample_df) : sample_df[i].sample_id = sample_id

ExpectedSpecimens(filename) ==
  LET ofFile(r) == r.file_name = filename
      rows == SelectSeq(pathology_df, ofFile)
      ids == Unique([i \in 1..Len(rows) |-> rows[i].sample_id], {}) IN
  SelectSeq(ids, HasBaseRow)

\* C17: the specimens of a returned graph are the associated specimens
\* with a base row, one record each, in table order.
C17_SpecimenList ==
  /\ slide_data.kind = "ok" =>
       [i \in 1..Len(slide_data.samples) |-> slide_data.samples[i].sample_id]
         = ExpectedSpecimens(slide_data.filename)
  /\ domain_metadata.kind = "ok" =>
       [i \in 1..Len(domain_metadata.specimens) |->
          domain_metadata.specimens[i].specimen_id]
         = ExpectedSpecimens(domain_metadata.filename)

\* the anatomic_site cell of the specimen's row in sample.csv
OwnSite(sample_id) ==
  LET ofSample(r) == r.sample_id = sample_id IN
  SelectSeq(sample_df, ofSample)[1].anatomic_site

LacksSite(site) == site = NA \/ site \in Sentinels

\* what a specimen with that own site holds after resolution with a
\* diagnosis of that site
RepairedSite(own, diagnosis_site) ==
  IF LacksSite(own) THEN diagnosis_site ELSE own

\* the diagnosis record is that of a row of diagnosis.csv
DiagnosisUntouched(diagnosis) ==
  \E i \in 1..Len(diagnosis_df) :
    /\ diagnosis_df[i].diagnosis_id = diagnosis.diagnosis_id
    /\ diagnosis_df[i].anatomic_site = diagnosis.anatomic_site

\* C13: after a resolution whose diagnosis has an anatomic site, a specimen
\* without a site of its own holds the diagnosis's site, a specimen with one
\* keeps it, and the diagnosis keeps the site of its row.
C13_SiteRepair ==
  /\ (/\ patient_data.kind = "ok"
      /\ patient_data.diagnosis.found
      /\ patient_data.diagnosis.anatomic_site # None) =>
       /\ \A i \in 1..Len(slide_data.samples) :
            slide_data.samples[i].anatomic_site =
              RepairedSite(OwnSite(slide_data.samples[i].sample_id),
                           patient_data.diagnosis.anatomic_site)
       /\ DiagnosisUntouched(patient_data.diagnosis)
  /\ (/\ domain_metadata.kind = "ok"
      /\ domain_metadata.diagnosis.found
      /\ domain_metadata.diagnosis.anatomic_site # NA) =>
       /\ \A i \in 1..Len(domain_metadata.specimens) :
            domain_metadata.specimens[i].anatomic_site =
              RepairedSite(OwnSite(domain_metadata.specimens[i].specimen_id),
                           domain_metadata.diagnosis.anatomic_site)
       /\ DiagnosisUntouched(domain_metadata.diagnosis)

\* the staining methods of the rows of pathology_file.csv for the pair
\* (filename, sample_id), or of the rows of the file when the pair has none
ImagingOf(filename, sample_id) ==
  LET ofPair(r) == r.file_name = filename /\ r.sample_id = sample_id
      ofFile(r) == r.file_name = filename
      pair == SelectSeq(pathology_df, ofPair)
      rows == IF pair # << >> THEN pair ELSE SelectSeq(pathology_df, ofFile)
  IN {rows[i].staining_method : i \in 1..Len(rows)}

\* C18: every resolved specimen carries the imaging attributes of an
\* association row of its own (filename, specimen) pair.
C18_ImagingOfOwnPair ==
  /\ slide_data.kind = "ok" =>
       \A i \in 1..Len(slide_data.samples) :
         slide_data.samples[i].staining_method \in
           ImagingOf(slide_data.filename, slide_data.samples[i].sample_id)
  /\ domain_metadata.kind = "ok" =>
       \A i \in 1..Len(domain_metadata.specimens) :
         domain_metadata.specimens[i].staining_method \in
           ImagingOf(domain_metadata.filename,
                     domain_metadata.specimens[i].specimen_id)

\* ---- diagnosis selection
RowsOfParticipant(participant_id) ==
  LET ofParticipant(r) == r.participant_id = participant_id IN
  SelectSeq(diagnosis_df, ofParticipant)

RowsOfSpecimen(sample_id) ==
  LET ofSample(r) == r.sample_id = sample_id IN
  SelectSeq(diagnosis_df, ofSample)

\* the diagnosis record is that of one of the rows
SelectedFrom(diagnosis, rows) ==
  \E i \in 1..Len(rows) :
    /\ rows[i].diagnosis_id = diagnosis.diagnosis_id
    /\ rows[i].diagnosis = diagnosis.diagnosis

\* the diagnosis of a file owned by the participant whose first specimen is
\* sample_id comes from the participant's rows, from the specimen's rows
\* when the participant has none, and is absent when both have none
SearchOrder(diagnosis, participant_id, sample_id) ==
  LET byParticipant == RowsOfParticipant(participant_id)
      bySpecimen == RowsOfSpecimen(sample_id) IN
  IF byParticipant # << >>
  THEN diagnosis.found /\ SelectedFrom(diagnosis, byParticipant)
  ELSE IF bySpecimen # << >>
  THEN diagnosis.found /\ SelectedFrom(diagnosis, bySpecimen)
  ELSE ~diagnosis.found

\* C15: diagnosis rows are searched by the owning participant first and by
\* the first specimen only when the participant has no row; the diagnosis
\* is absent only when both searches find nothing.
C15_DiagnosisSearchOrder ==
  /\ patient_data.kind = "ok" =>
       SearchOrder(patient_data.diagnosis, patient_data.patient_id,
                   slide_data.samples[1].sample_id)
  /\ domain_metadata.kind = "ok" =>
       SearchOrder(domain_metadata.diagnosis, domain_metadata.patient,
                   domain_metadata.specimens[1].specimen_id)

IsRow(diagnosis, row) ==
  /\ diagnosis.found
  /\ diagnosis.diagnosis_id = row.diagnosis_id
  /\ diagnosis.diagnosis = row.diagnosis

\* among the matched rows: the first row without a variant marker, but the
\* first _CNS5_diagnosis row when that row's code is 999 and there is one;
\* a variant row in no other case
VariantRule(diagnosis, matches) ==
  LET primary(r) == ~IsVariant(r.diagnosis_id)
      cns5(r) == Contains(r.diagnosis_id, "_CNS5_diagnosis")
      primary_matches == SelectSeq(matches, primary)
      cns5_matches == SelectSeq(matches, cns5) IN
  IF primary_matches = << >>
  THEN ~(diagnosis.found /\ IsVariant(diagnosis.diagnosis_id))
  ELSE IF Head(primary_matches[1].diagnosis) = "999" /\ cns5_matches # << >>
       THEN IsRow(diagnosis, cns5_matches[1])
       ELSE IsRow(diagnosis, primary_matches[1])

\* the rows each backend matches for the file
MatchedRows(participant_id, sample_id) ==
  IF RowsOfParticipant(participant_id) # << >>
  THEN RowsOfParticipant(participant_id)
  ELSE RowsOfSpecimen(sample_id)

\* C16: variant rows are excluded and the first remaining row is selected,
\* except that a 999 row gives way to the first _CNS5_diagnosis row.
C16_VariantRule ==
  /\ patient_data.kind = "ok" =>
       VariantRule(patient_data.diagnosis,
                   MatchedRows(patient_data.patient_id,
                               slide_data.samples[1].sample_id))
  /\ domain_metadata.kind = "ok" =>
       VariantRule(domain_metadata.diagnosis,
                   RowsOfParticipant(domain_metadata.patient))

\* ---- anatomy lookup
\* the entries that match the site by each tier
Tier1(site) == {i \in 1..Len(anatomy_map) : anatomy_map[i] = site}

Tier2(site) ==
  {i \in 1..Len(anatomy_map) : StartsWith(site, CodePortion(anatomy_map[i]))}

Tier3(site) == {i \in 1..Len(anatomy_map) : IsSubstring(anatomy_map[i], site)}

\* C19: the lookup returns a match of the first tier that has one over the
\* whole catalog, and nothing when no tier has one.
C19_FirstTierWins ==
  result.called =>
    IF Tier1(arg) # {} THEN result.value \in Tier1(arg)
    ELSE IF Tier2(arg) # {} THEN result.value \in Tier2(arg)
    ELSE IF Tier3(arg) # {} THEN result.value \in Tier3(arg)
    ELSE result.value = 0

\* ---- diagnosis parsing
\* code and description of a string: split at its first separator, or no
\* code and the entire string
ParsedCode(s) ==
  IF FindSeparator(s, 1) > 0
  THEN Strip(BeforeSeparator(s, FindSeparator(s, 1)))
  ELSE NoStr

ParsedMeaning(s) ==
  IF FindSeparator(s, 1) > 0
  THEN Strip(AfterSeparator(s, FindSeparator(s, 1)))
  ELSE s

\* C20: a string with a separator parses to (code, ICD-O-3, description),
\* split at the first separator; a string without one parses to no code,
\* no scheme and the entire string, whatever catalog is loaded.
C20_DiagnosisParse ==
  arg.diagnosis # << >> =>
    /\ result.claude.called =>
         /\ result.claude.value.code = ParsedCode(arg.diagnosis)
         /\ result.claude.value.meaning = ParsedMeaning(arg.diagnosis)
         /\ result.claude.value.scheme =
              IF FindSeparator(arg.diagnosis, 1) > 0 THEN ICDO3 ELSE NoStr
    /\ result.copilot.called =>
         /\ result.copilot.value.code = ParsedCode(arg.diagnosis)
         /\ result.copilot.value.meaning = ParsedMeaning(arg.diagnosis)

\* the code portion of the string starts with the reserved prefix 999
IsUnknownCode(s) ==
  /\ FindSeparator(s, 1) > 0
  /\ ParsedCode(s) # << >>
  /\ Head(ParsedCode(s)) = "999"

\* C21: a diagnosis whose code portion is unknown (999) is resolved without
\* code and scheme, keeps its description, and no coded diagnosis entry is
\* emitted for it.
C21_UnknownCodeDropped ==
  IsUnknownCode(arg.diagnosis) =>
    /\ result.claude.called =>
         /\ result.claude.value.code = NoStr
         /\ result.claude.value.scheme = NoStr
         /\ result.claude.value.meaning = ParsedMeaning(arg.diagnosis)
    /\ result.copilot.called =>
         /\ result.copilot.value.code = NoStr
         /\ result.copilot.value.meaning = ParsedMeaning(arg.diagnosis)
    /\ result.dataset.called => result.dataset.value.code_sequence = << >>

\* the value the sex mapping is to give for a source string
ExpectedSex(s) ==
  IF ~Truthy(s) THEN NoStr
  ELSE LET w == Strip(lower(s))
       IN  IF w \in {male, <<"m">>} THEN <<"M">>
           ELSE IF w \in {female, <<"f">>} THEN <<"F">>
           ELSE IF w \in {other, <<"o">>} THEN <<"O">>
           ELSE NoStr

\* C22: the sex mapping ignores case, accepts full words and single letters,
\* gives one of male, female, other, and gives absent for any other input,
\* in the catalog and in the assembled patient record.
C22_SexMapping ==
  \A f \in {"catalog", "handler", "builder"} :
    result[f].called => result[f].value = ExpectedSex(arg)

\* the abbreviations available for a specimen, in the order fixation,
\* embedding, staining, tissue status
Abbreviations(s) ==
  Parts(<<get_fixation_abbreviation(s.fixation_method),
          get_embedding_abbreviation(s.fixation_method),
          get_staining_abbreviation(s.staining_method),
          get_tissue_type_abbreviation(s.tumor_status)>>)

\* the longest run of leading tokens whose joined text fits in n characters
RECURSIVE Fitting(_, _)
Fitting(tokens, n) ==
  IF tokens = << >> \/ Len(Join(tokens)) <= n THEN tokens
  ELSE Fitting(SubSeq(tokens, 1, Len(tokens) - 1), n)

\* the text of a description, an absent one being empty
TextOf(d) == IF d = None THEN "" ELSE d

\* C23: the short description of a specimen is its available abbreviations
\* in the order fixation, embedding, staining, tissue status, separated by
\* single blanks, never longer than 64 characters, whole trailing tokens
\* being dropped when it would be longer.
C23_ShortDescription ==
  \A f \in {"builder", "handler", "domain"} :
    result[f].called =>
      /\ Len(TextOf(result[f].value)) <= 64
      /\ TextOf(result[f].value) = Join(Fitting(Abbreviations(arg), 64))

\* the first study identifier an assembler gave for the participant
FirstStudyUid(b) ==
  IF b.op = "claude" THEN issued_csv["study"][b.key]
  ELSE issued_sql["study"][b.key]

\* C24: every result assembled for a participant, in one process or after
\* restarts on the same store, carries the study identifier of the first
\* result for that participant, and a result with a study timestamp carries
\* the timestamp recorded for the first file of the participant.
C24_StudyConverges ==
  (last.op \in {"claude", "copilot"} /\ ~last.raised) =>
    /\ last.study_uid = FirstStudyUid(last)
    /\ last.op = "copilot" =>
         /\ last.study_datetime = issued_sql["study_datetime"][last.key]
         /\ first_candidate.sql[last.key] # NoStr =>
              last.study_datetime = first_candidate.sql[last.key]

\* the file cannot be resolved: no specimens or no participant
ResolutionFails(input_file) == load_slide(input_file.name).kind = "error"

\* the file fails when converted on its own
FailsAlone(input_file) ==
  ResolutionFails(input_file) \/ input_file \in unreadable

\* the batch called convert_slide for its input files in input order
InInputOrder(b) == b.log = b.input_files

\* the batch result has an entry for the file, empty if and only if the
\* file fails when converted on its own
OwnEntry(b, input_file) ==
  /\ input_file.name \in DOMAIN b.results
  /\ (b.results[input_file.name] = << >>) <=> FailsAlone(input_file)

\* C25: in a batch the input files are processed in input order, the result
\* has an entry for every input file, a file whose resolution fails is
\* reported as failed, and the entry of every file is what the file gives
\* on its own, whatever happened to the other files.
C25_BatchIsolation ==
  last_convert.op = "convert_batch" =>
    /\ InInputOrder(last_convert)
    /\ \A i \in 1..Len(last_convert.input_files) :
         OwnEntry(last_convert, last_convert.input_files[i])

\* the field holds a sentinel string or the empty string
IsPlaceholder(v) == v \in Sentinels \cup {NA}

\* C26: no optional field of a resolved specimen holds "Not Reported",
\* "Invalid value" or the empty string: such cells are read as absent.
C26_NoPlaceholders ==
  /\ slide_data.kind = "ok" =>
       \A i \in 1..Len(slide_data.samples) :
         /\ ~IsPlaceholder(slide_data.samples[i].anatomic_site)
         /\ ~IsPlaceholder(slide_data.samples[i].staining_method)
  /\ domain_metadata.kind = "ok" =>
       \A i \in 1..Len(domain_metadata.specimens) :
         /\ ~IsPlaceholder(domain_metadata.specimens[i].anatomic_site)
         /\ ~IsPlaceholder(domain_metadata.specimens[i].staining_method)

\* every table names its foreign-key columns dotted
Dotted == [pathology |-> "dotted", sample |-> "dotted",
           diagnosis |-> "dotted"]

\* C27: a file resolves to the same result whether the foreign-key columns
\* of the file-association, specimen and diagnosis tables are named bare or
\* dotted.
C27_ColumnNames ==
  /\ result.claude.called =>
       result.claude.value = claude_resolve_columns("f.svs", Dotted)
  /\ result.copilot.called =>
       result.copilot.value = load_slide_columns("f.svs", Dotted)

\* f is g with rows appended
Extends(g, f) == Len(f) <= Len(g) /\ SubSeq(g, 1, Len(f)) = f

\* the file of the namespace holds one row per mapped key, and reading it
\* rebuilds the in-memory map
FileIsTheMap(ns) ==
  /\ Len(FileOf(ns)) = Cardinality(DOMAIN CacheOf(ns))
  /\ load_csv_map(FileOf(ns)) = CacheOf(ns)

\* the step is a get_or_create call of the namespace
CreateStep(ns) == last'.op = ns

\* C28: on one manager a get_or_create call for an unmapped key appends
\* exactly one row and a call for a mapped key appends none, no row is ever
\* rewritten or removed, and after every call or reload the file holds one
\* row per mapped key and replaying it rebuilds the in-memory map.
C28_AppendOnlyFile ==
  [][\A ns \in UidOps :
       /\ Extends(FileOf(ns)', FileOf(ns))
       /\ CreateStep(ns) =>
            Len(FileOf(ns)') =
              Len(FileOf(ns))
                + (IF Strip(last'.key) \in DOMAIN CacheOf(ns) THEN 0 ELSE 1)
       /\ FileIsTheMap(ns)']_vars

\* the stripped keys for which a get_or_create call of the namespace has
\* returned an identifier
CreatedKeys(ns) == {Strip(k) : k \in DOMAIN issued_csv[ns]}

\* the identifier first returned for a key that strips to id
FirstReturned(ns, id) ==
  issued_csv[ns][CHOOSE k \in DOMAIN issued_csv[ns] : Strip(k) = id]

\* what has_*_uid and get_*_uid of the namespace answer for a key now
HasNow(ns, k) ==
  IF ns = "specimen" THEN has_specimen_uid(k) ELSE has_study_uid(k)

GetNow(ns, k) ==
  IF ns = "specimen" THEN get_specimen_uid(k) ELSE get_study_uid(k)

CountNow(ns) == IF ns = "specimen" THEN specimen_count ELSE study_count

\* C29: once get_or_create has returned u for a key, has_*_uid is true and
\* get_*_uid and get_or_create return u for every key that strips to the
\* same key, and the count of the namespace is the number of distinct
\* stripped keys created.
C29_OneKeySpace ==
  \A ns \in UidOps :
    /\ \A k \in Keys :
         Strip(k) \in CreatedKeys(ns) =>
           /\ HasNow(ns, k) = True
           /\ GetNow(ns, k) = FirstReturned(ns, Strip(k))
    /\ (last.op = ns /\ ~last.csv_raised) =>
         last.csv_ret = FirstReturned(ns, Strip(last.key))
    /\ CountNow(ns) = Cardinality(CreatedKeys(ns))

\* the counters of which the call that ended last added one to
Incremented(before, after) ==
  {c \in {"successful", "failed", "skipped"} : after[c] = before[c] + 1}

====
